---- MODULE Spec2Model ----
(***************************************************************************)
(* Verification model of the transactional agent and the RailBridge        *)
(* cross-chain facilitator.                                                *)
(*                                                                         *)
(* Part I   RealWallet.pay: the nonce-conflict retry loop that broadcasts  *)
(*          a value transfer (x402 client).                                *)
(* Part II  The facilitator: lifecycle hooks, the POST /verify and         *)
(*          POST /settle handlers, CrossChainRouter and BridgeService.     *)
(*                                                                         *)
(* Asynchronous functions are modelled at the granularity of their await   *)
(* points: one action per resumption, running synchronously to the next    *)
(* await, return or throw.                                                 *)
(***************************************************************************)
EXTENDS Integers, Sequences, FiniteSets, TLC

\* let nextNonce: number | null = null -- the absent nonce.
NULL == -1

\* An error that was never raised: the empty text.
NoError == <<>>

(***************************************************************************)
(* Part I: RealWallet.pay                                                  *)
(***************************************************************************)

\* Concurrent invocations of pay() on one wallet (same sender, same chain).
Calls == {1, 2}

\* const maxAttempts = 5
maxAttempts == 5

\* Largest pending transaction count the RPC node reports.
MaxRpcNonce == 1

RpcNonces == 0..MaxRpcNonce

\* Error texts are sequences of tokens: a phrase W(..), or a run of digits
\* D(n) given as the number it denotes.  String.includes is membership of the
\* phrase and a regular expression "<word>\s*(\d+)" is the word directly
\* followed by a digits token.
W(phrase) == [word |-> phrase, digits |-> -1]
D(n) == [word |-> "", digits |-> n]

NonceTooLowState == <<W("nonce too low"), W("tx:"), D(5), W("state:"), D(7)>>
NonceTooLowWant == <<W("nonce too low"), W("have"), D(5), W("want"), D(3)>>
Underpriced == <<W("replacement transaction underpriced")>>
AlreadyKnownBoth == <<W("already known"), W("want"), D(4), W("state:"), D(2)>>
InsufficientFunds == <<W("insufficient funds"), W("state:"), D(9)>>
RpcUnavailable == <<W("HTTP request failed")>>

\* Texts a failing sendTransaction may carry.
ErrorTexts ==
  { NonceTooLowState, NonceTooLowWant, Underpriced, AlreadyKnownBoth,
    InsufficientFunds }

\* Texts a failing waitForTransactionReceipt may carry.
ReceiptTimeout == <<W("Timed out while waiting for transaction"), W("state:")>>
ReceiptErrorTexts == { ReceiptTimeout, Underpriced }

\* new Error(`Transaction failed with status: ${receipt.status}`)
ReceiptFailed == <<W("Transaction failed with status:"), W("reverted")>>

\* new Error("Max retry attempts reached for transaction.")
MaxRetryError == <<W("Max retry attempts reached for transaction.")>>

Includes(msg, phrase) == \E i \in 1..Len(msg) : msg[i].word = phrase

\* Mutant: a failed receipt is matched as a nonce conflict too.
IsNonceErrorOrFailedReceipt(msg) ==
  \/ Includes(msg, "nonce too low")
  \/ Includes(msg, "nonce usage")
  \/ Includes(msg, "replacement transaction underpriced")
  \/ Includes(msg, "already known")
  \/ Includes(msg, "Transaction failed with status:")

\* error.message?.includes(...) || ... : the nonce-conflict family
IsNonceError(msg) ==
  \/ Includes(msg, "nonce too low")
  \/ Includes(msg, "nonce usage")
  \/ Includes(msg, "replacement transaction underpriced")
  \/ Includes(msg, "already known")

\* msg.match(/<word>\s*(\d+)/): positions where word is followed by digits
MatchPositions(msg, word) ==
  { i \in 1..Len(msg) : /\ msg[i].word = word
                        /\ i + 1 <= Len(msg)
                        /\ msg[i + 1].digits >= 0 }

\* parseInt(match[1], 10) of the first match, NULL when there is none
MatchNumber(msg, word) ==
  IF MatchPositions(msg, word) = {} THEN NULL
  ELSE LET i == CHOOSE p \in MatchPositions(msg, word) :
                  \A q \in MatchPositions(msg, word) : p <= q
       IN msg[i + 1].digits

\* Mutant: the 'want' pattern is tried before the 'state:' pattern.
StateMatchWantFirst(msg) ==
  IF MatchNumber(msg, "want") # NULL THEN MatchNumber(msg, "want")
  ELSE MatchNumber(msg, "state:")

\* error.message.match(/state:\s*(\d+)/) || error.message.match(/want\s*(\d+)/)
StateMatch(msg) ==
  IF MatchNumber(msg, "state:") # NULL THEN MatchNumber(msg, "state:")
  ELSE MatchNumber(msg, "want")

\* Mutant: the parsed nonce is ignored and the candidate always incremented.
CorrectedNonceBlind(msg, count) == count + 1

\* nextNonce after a nonce error: the parsed nonce, else count + 1
CorrectedNonce(msg, count) ==
  IF StateMatch(msg) # NULL THEN StateMatch(msg) ELSE count + 1

\* Mutant: one attempt too many.
LoopConditionInclusive(a) == a <= maxAttempts

\* while (attempt < maxAttempts)
LoopCondition(a) == a < maxAttempts

\* Mutant: the corrected nonce is never used; the chain is asked every time.
UsesCorrectedNonceNever(nn) == FALSE

\* if (nextNonce !== null) { count = nextNonce } else { ...getTransactionCount }
UsesCorrectedNonce(nn) == nn # NULL

\* The recipient and the amount pay() was called with.
Recipient(c) == "0x4444444444444444444444444444444444444444"
Amount(c) == "0.001"

\* No calldata: the request names to, value and nonce only.
NoData == "0x"

\* sendTransaction({ to: recipient, value: value, nonce: count }) of call c,
\* attempt a: nothing in it depends on the attempt
TransactionRequest(c, a, nonce) ==
  [to |-> Recipient(c), value |-> Amount(c), nonce |-> nonce, data |-> NoData]

\* The hash of the signed transaction: a collision-free function of its
\* fields (the sender and the chain are the same for every request).
TxHash(tx) == <<"keccak256", tx.to, tx.value, tx.nonce, tx.data>>

\* Mutant: every caught error is treated as retryable.
ShouldRetryAlways(msg) == TRUE

\* if (isNonceError) { ... continue; }  -- otherwise: throw error
ShouldRetry(msg) == IsNonceError(msg)

VARIABLES
  payPc,        \* per call: "idle", "rpc", "send", "wait", "returned", "thrown"
  attempt,      \* per call: let attempt
  nextNonce,    \* per call: let nextNonce: number | null
  count,        \* per call: let count (the nonce of the current attempt)
  payHash,      \* per call: index of the broadcast whose hash was returned
  payError,     \* per call: the error pay() ended with
  sendCount,    \* per call: number of sendTransaction invocations
  rpcCount,     \* per call: number of getTransactionCount invocations
  lastError,    \* per call: the error caught by the latest catch
  prevCount,    \* per call: count of the attempt that raised lastError
  lastErrorAt,  \* per call: the await that raised lastError
  nonceFailures,\* per call: attempts that ended in a nonce-conflict error
  sendsAfterFatal \* per call: sendTransaction invocations made after an
                \* error outside the nonce-conflict family was caught

payVars == <<payPc, attempt, nextNonce, count, payHash, payError, sendCount,
             rpcCount, lastError, lastErrorAt, prevCount, nonceFailures,
             sendsAfterFatal>>

\* State of the facilitator process (Part II).
VARIABLES
  CROSS_CHAIN_ENABLED, \* process.env.CROSS_CHAIN_ENABLED !== "false"
  bridgeLiquidity,     \* what the bridge provider answers to checkLiquidity
  consumed,            \* payloads whose authorization the chain has executed
  requests             \* per request: the handler's position and locals

facVars == <<CROSS_CHAIN_ENABLED, bridgeLiquidity, consumed, requests>>

\* State of the chain node the wallet talks to, for the sender's account.
VARIABLES
  chainNonce,  \* number of the sender's transactions already mined
  pool,        \* the sender's pending transactions: [nonce, call, fee]
  mined,       \* the sender's mined transactions: [nonce, call, fee]
  answered     \* per call: the pending count getTransactionCount answered

chainVars == <<chainNonce, pool, mined, answered>>

\* A resource server declaring the cross-chain extension and a facilitator
\* reading it back from a payload (Part IV).
VARIABLES
  extPc,       \* "idle", "built", "extracted"
  extParams,   \* the params given to declareCrossChainExtension
  extPayload,  \* the payload handed to extractCrossChainInfo
  extResult    \* what extractCrossChainInfo returned

extVars == <<extPc, extParams, extPayload, extResult>>

\* One X402Client.get call (the fetch-based client) and the token's Transfer
\* logs from the payer to the payee (Part V).
VARIABLES
  getPc,          \* "idle", "eth_blockNumber", "fetchWithPayment",
                  \* "getBlockNumber", "getLogs", "done"
  startBlock,     \* let startBlock: bigint | undefined
  startHead,      \* the chain's block number when the request started
  head,           \* the chain's latest block number
  transfers,      \* the Transfer logs from payer to payee, in chain order
  currentOptions, \* this.currentOptions
  blockNumber,    \* const blockNumber = await publicClient.getBlockNumber()
  getAttempt,     \* the polling loop's attempt
  reported        \* the log whose transactionHash was put into the response

getVars == <<getPc, startBlock, startHead, head, transfers, currentOptions,
             blockNumber, getAttempt, reported>>

\* One request made through the axios-based X402Client (Part VI).
VARIABLES
  axPc,       \* "idle", "sent", "pay", "resolved", "rejected"
  axMethod,   \* "get" or "post"
  axSends,    \* requests the axios instance has sent
  axPays,     \* wallet.pay invocations
  axPayArgs,  \* the arguments of the latest wallet.pay invocation
  axHeaders,  \* originalRequest.headers
  axResult    \* what the promise returned by get/post settled with

axVars == <<axPc, axMethod, axSends, axPays, axPayArgs, axHeaders, axResult>>

clientVars == <<extVars, getVars, axVars>>

PayInit ==
  /\ payPc = [c \in Calls |-> "idle"]
  /\ attempt = [c \in Calls |-> 0]
  /\ nextNonce = [c \in Calls |-> NULL]
  /\ count = [c \in Calls |-> NULL]
  /\ payHash = [c \in Calls |-> 0]
  /\ payError = [c \in Calls |-> NoError]
  /\ sendCount = [c \in Calls |-> 0]
  /\ rpcCount = [c \in Calls |-> 0]
  /\ lastError = [c \in Calls |-> NoError]
  /\ lastErrorAt = [c \in Calls |-> "none"]
  /\ prevCount = [c \in Calls |-> NULL]
  /\ nonceFailures = [c \in Calls |-> 0]
  /\ sendsAfterFatal = [c \in Calls |-> 0]

\* Mutant: the corrected nonce is kept in a field of the wallet, which all
\* its pay() calls share.
AssignNextNonceShared(c, n) == [d \in Calls |-> n]

\* let nextNonce: number | null, declared in the body of pay(): an
\* assignment in call c changes call c's variable.
AssignNextNonce(c, n) == [nextNonce EXCEPT ![c] = n]

\* One pass from the top of the while loop to the next await, return or
\* throw, entered with attempt counter a and corrected nonce nn (or NULL).
LoopTop(c, a, nn) ==
  IF LoopCondition(a)
  THEN /\ attempt' = [attempt EXCEPT ![c] = a + 1]
       /\ IF UsesCorrectedNonce(nn)
          THEN /\ count' = [count EXCEPT ![c] = nn]
               /\ payPc' = [payPc EXCEPT ![c] = "send"]
               /\ sendCount' = [sendCount EXCEPT ![c] = @ + 1]
               /\ UNCHANGED rpcCount
          ELSE /\ payPc' = [payPc EXCEPT ![c] = "rpc"]
               /\ rpcCount' = [rpcCount EXCEPT ![c] = @ + 1]
               /\ UNCHANGED <<count, sendCount>>
       /\ UNCHANGED payError
  ELSE /\ payPc' = [payPc EXCEPT ![c] = "thrown"]
       /\ payError' = [payError EXCEPT ![c] = MaxRetryError]
       /\ UNCHANGED <<attempt, count, sendCount, rpcCount>>

\* catch (error) { ... }: classify, correct the nonce and loop, or rethrow.
Catch(c, msg) ==
  /\ lastError' = [lastError EXCEPT ![c] = msg]
  /\ lastErrorAt' = [lastErrorAt EXCEPT ![c] =
                       IF payPc[c] = "send" THEN "sendTransaction"
                       ELSE "waitForTransactionReceipt"]
  /\ prevCount' = [prevCount EXCEPT ![c] = count[c]]
  /\ UNCHANGED payHash
  /\ IF ShouldRetry(msg)
     THEN /\ nextNonce' = AssignNextNonce(c, CorrectedNonce(msg, count[c]))
          /\ nonceFailures' = [nonceFailures EXCEPT ![c] =
                                 IF IsNonceError(msg) THEN @ + 1 ELSE @]
          /\ sendsAfterFatal' = [sendsAfterFatal EXCEPT ![c] =
                                   IF ~IsNonceError(msg) /\ LoopCondition(attempt[c])
                                   THEN @ + 1 ELSE @]
          /\ LoopTop(c, attempt[c], CorrectedNonce(msg, count[c]))
     ELSE /\ payPc' = [payPc EXCEPT ![c] = "thrown"]
          /\ payError' = [payError EXCEPT ![c] = msg]
          /\ UNCHANGED <<attempt, nextNonce, count, sendCount, rpcCount,
                         nonceFailures, sendsAfterFatal>>

\* pay(recipient, amount, currency): up to the first await.
PayStart(c) ==
  /\ UNCHANGED <<facVars, chainVars, clientVars>>
  /\ payPc[c] = "idle"
  /\ nextNonce' = AssignNextNonce(c, NULL)
  /\ LoopTop(c, 0, NULL)
  /\ UNCHANGED <<payHash, lastError, lastErrorAt, prevCount, nonceFailures, sendsAfterFatal>>

\* Mutant: the call queries the count again instead of sending, outside the
\* loop's attempt counter.
GotTransactionCountRequeries(c, n) ==
  /\ count' = [count EXCEPT ![c] = n]
  /\ UNCHANGED <<payPc, sendCount, attempt, nextNonce, payHash, payError,
                 rpcCount, lastError, lastErrorAt, prevCount, nonceFailures,
                 sendsAfterFatal>>

\* count = rpcNonce, then sendTransaction is called.
GotTransactionCount(c, n) ==
  /\ count' = [count EXCEPT ![c] = n]
  /\ payPc' = [payPc EXCEPT ![c] = "send"]
  /\ sendCount' = [sendCount EXCEPT ![c] = @ + 1]
  /\ UNCHANGED <<attempt, nextNonce, payHash, payError, rpcCount, lastError,
                 lastErrorAt, prevCount, nonceFailures, sendsAfterFatal>>

\* await this.client.getTransactionCount(...) resolves with n.
GetTransactionCountReturns(c) ==
  /\ UNCHANGED <<facVars, chainVars, clientVars>>
  /\ payPc[c] = "rpc"
  /\ \E n \in RpcNonces : GotTransactionCount(c, n)

\* await this.client.getTransactionCount(...) rejects: outside the try block.
GetTransactionCountThrows(c) ==
  /\ UNCHANGED <<facVars, chainVars, clientVars>>
  /\ payPc[c] = "rpc"
  /\ payPc' = [payPc EXCEPT ![c] = "thrown"]
  /\ payError' = [payError EXCEPT ![c] = RpcUnavailable]
  /\ UNCHANGED <<payHash, attempt, nextNonce, count, sendCount, rpcCount, lastError,
                 lastErrorAt, prevCount, nonceFailures, sendsAfterFatal>>

\* sendTransaction resolved: log, then await waitForTransactionReceipt.
Broadcast(c) ==
  /\ payPc' = [payPc EXCEPT ![c] = "wait"]
  /\ UNCHANGED <<attempt, nextNonce, count, payHash, payError, sendCount, rpcCount,
                 lastError, lastErrorAt, prevCount, nonceFailures, sendsAfterFatal>>

\* await this.client.sendTransaction(...) resolves with a hash.
SendTransactionReturns(c) ==
  /\ UNCHANGED <<facVars, chainVars, clientVars>>
  /\ payPc[c] = "send"
  /\ Broadcast(c)

\* await this.client.sendTransaction(...) rejects.
SendTransactionThrows(c) ==
  /\ UNCHANGED <<facVars, chainVars, clientVars>>
  /\ payPc[c] = "send"
  /\ \E msg \in ErrorTexts : Catch(c, msg)

\* await waitForTransactionReceipt resolves with status 'success'.
ReceiptSuccess(c) ==
  /\ UNCHANGED <<facVars, chainVars, clientVars>>
  /\ payPc[c] = "wait"
  /\ payPc' = [payPc EXCEPT ![c] = "returned"]
  /\ payHash' = [payHash EXCEPT ![c] = sendCount[c]]
  /\ UNCHANGED <<payError, attempt, nextNonce, count, sendCount, rpcCount, lastError,
                 lastErrorAt, prevCount, nonceFailures, sendsAfterFatal>>

\* await waitForTransactionReceipt resolves with another status:
\* throw new Error(`Transaction failed with status: ...`), caught below.
ReceiptReverted(c) ==
  /\ UNCHANGED <<facVars, chainVars, clientVars>>
  /\ payPc[c] = "wait"
  /\ Catch(c, ReceiptFailed)

\* await waitForTransactionReceipt rejects.
ReceiptThrows(c) ==
  /\ UNCHANGED <<facVars, chainVars, clientVars>>
  /\ payPc[c] = "wait"
  /\ \E msg \in ReceiptErrorTexts : Catch(c, msg)

(***************************************************************************)
(* Part II: the facilitator                                                *)
(***************************************************************************)

\* Requests in flight at the facilitator process.
Reqs == {1, 2}

\* CAIP-2 network identifiers and 0x addresses the requests are built from.
BaseSepolia == "eip155:84532"
EthSepolia == "eip155:11155111"
UsdcBase == "0x036CbD53842c5426634e7929541eC2318f3dCF7e"
UsdcEth == "0x1c7D4B196Cb0C7B01d743Fbc6116a902379C7238"

\* The Base Sepolia USDC address written in lower case.
UsdcBaseLower == "0x036cbd53842c5426634e7929541ec2318f3dcf7e"
MerchantAddress == "0x1111111111111111111111111111111111111111"
PayerAddress == "0x2222222222222222222222222222222222222222"

\* facilitatorAddress: evmAccount.address -- the bridge lock address
FacilitatorAddress == "0x3333333333333333333333333333333333333333"

\* A field that is not there (typeof x !== "string").
Undefined == "<undefined>"

\* Strings matching /^eip155:\d+$/
Eip155Strings == {BaseSepolia, EthSepolia}

\* Strings matching /^0x[a-fA-F0-9]{40}$/
HexAddressStrings ==
  {UsdcBase, UsdcBaseLower, UsdcEth, MerchantAddress, PayerAddress,
   FacilitatorAddress}

\* payload.extensions["cross-chain"] as sent by the client.
ExtAbsent ==
  [shape |-> "absent", destinationNetwork |-> Undefined,
   destinationAsset |-> Undefined, destinationPayTo |-> Undefined]
ExtNoInfo ==
  [shape |-> "noInfo", destinationNetwork |-> Undefined,
   destinationAsset |-> Undefined, destinationPayTo |-> Undefined]
ExtBadAddress ==
  [shape |-> "info", destinationNetwork |-> EthSepolia,
   destinationAsset |-> UsdcEth, destinationPayTo |-> "0xMerchant"]
ExtCross ==
  [shape |-> "info", destinationNetwork |-> EthSepolia,
   destinationAsset |-> UsdcEth, destinationPayTo |-> MerchantAddress]
ExtSameNetwork ==
  [shape |-> "info", destinationNetwork |-> BaseSepolia,
   destinationAsset |-> UsdcBase, destinationPayTo |-> MerchantAddress]
ExtLowerCaseAsset ==
  [shape |-> "info", destinationNetwork |-> EthSepolia,
   destinationAsset |-> UsdcBaseLower, destinationPayTo |-> MerchantAddress]

\* PaymentPayload: the extension entry, the signed authorization (reduced to
\* what the payment scheme makes of it) and the top-level network field,
\* which a payload need not have.
Payloads ==
  { [extension |-> e, signed |-> "good", network |-> BaseSepolia] :
      e \in {ExtAbsent, ExtNoInfo, ExtBadAddress, ExtCross, ExtSameNetwork,
             ExtLowerCaseAsset} }
  \cup { [extension |-> ExtCross, signed |-> "bad", network |-> BaseSepolia],
         [extension |-> ExtCross, signed |-> "throws", network |-> BaseSepolia],
         [extension |-> ExtAbsent, signed |-> "bad", network |-> BaseSepolia],
         [extension |-> ExtAbsent, signed |-> "good", network |-> Undefined] }

\* A request body without paymentPayload.
NoPayload ==
  [extension |-> ExtAbsent, signed |-> "missing", network |-> Undefined]

\* PaymentRequirements
Requirement(scheme, payTo) ==
  [scheme |-> scheme, network |-> BaseSepolia, asset |-> UsdcBase,
   amount |-> "10000", payTo |-> payTo, maxTimeoutSeconds |-> "60",
   extra |-> "usdc-eip712"]

RequirementsSet ==
  { Requirement("exact", MerchantAddress),
    Requirement("exact", FacilitatorAddress),
    Requirement("bazaar", MerchantAddress) }

NoRequirements == Requirement("", "")

\* Mutant: a facilitator is registered for "bazaar" as well.
schemeFacilitatorsWithBazaar == {"exact", "bazaar"}

\* schemeFacilitators.set("exact", evmScheme)
schemeFacilitators == {"exact"}

\* registerExactEvmScheme(facilitator, { networks: [...] })
RegisteredKinds ==
  { <<"exact", n>> : n \in {"eip155:8453", BaseSepolia, "eip155:1",
                            EthSepolia, "eip155:137"} }

Entries == {"POST /verify", "POST /settle", "router.verify", "router.settle"}

\* CrossChainInfo | null
NoInfo == ExtAbsent

\* Mutant: the address pattern of destinationPayTo is not tested.
extractCrossChainInfoLax(payload) ==
  IF payload.extension.shape = "info" THEN payload.extension ELSE NoInfo

\* extractCrossChainInfo: the info when the entry is there, has an info object
\* and its three fields are strings of the expected patterns; null otherwise.
extractCrossChainInfo(payload) ==
  LET ext == payload.extension IN
  IF ext.shape = "absent" THEN NoInfo
  ELSE IF ext.shape # "info" THEN NoInfo
  ELSE IF /\ ext.destinationNetwork # Undefined
          /\ ext.destinationAsset # Undefined
          /\ ext.destinationPayTo # Undefined
          /\ ext.destinationNetwork \in Eip155Strings
          /\ ext.destinationAsset \in HexAddressStrings
          /\ ext.destinationPayTo \in HexAddressStrings
       THEN ext
       ELSE NoInfo

\* Reason and error texts: the parts of the template string, in order.
Reason(text) == <<text>>
NoReason == <<>>
NotSupportedForScheme(scheme) ==
  <<"cross_chain_not_supported_for_scheme: ", scheme,
    ". No facilitator registered for this scheme.">>
SourceVerificationFailed(message) ==
  <<"source_chain_verification_failed: ", message>>

\* What a call or a handler answered.
NoResponse ==
  [kind |-> "none", http |-> 0, ok |-> FALSE, reason |-> NoReason,
   transaction |-> "", network |-> "", payer |-> ""]
VerifyResponse(isValid, invalidReason, payer) ==
  [kind |-> "VerifyResponse", http |-> 0, ok |-> isValid,
   reason |-> invalidReason, transaction |-> "", network |-> "",
   payer |-> payer]
SettleResponse(success, errorReason, transaction, network, payer) ==
  [kind |-> "SettleResponse", http |-> 0, ok |-> success,
   reason |-> errorReason, transaction |-> transaction, network |-> network,
   payer |-> payer]
Thrown(message) ==
  [kind |-> "thrown", http |-> 0, ok |-> FALSE, reason |-> <<message>>,
   transaction |-> "", network |-> "", payer |-> ""]

\* An error whose message is the given parts, one after the other.
ThrownText(parts) ==
  [kind |-> "thrown", http |-> 0, ok |-> FALSE, reason |-> parts,
   transaction |-> "", network |-> "", payer |-> ""]

\* Messages carrying the words of an aborted settlement: at their start, and
\* behind the words of a wrapping error.
SettlementAborted ==
  <<"Settlement aborted:", " ", "authorization_expired">>
SettlementAbortedWrapped ==
  <<"settle failed: ", "Settlement aborted:", " ", "authorization_expired">>

\* res.json(x) and res.status(code).json({error})
Json(response) == [response EXCEPT !.http = 200]
HttpError(code, message) ==
  [kind |-> "error", http |-> code, ok |-> FALSE, reason |-> <<message>>,
   transaction |-> "", network |-> "", payer |-> ""]
HttpErrorText(code, parts) ==
  [kind |-> "error", http |-> code, ok |-> FALSE, reason |-> parts,
   transaction |-> "", network |-> "", payer |-> ""]

\* The transaction hash the chain gives request r's settlement.
TxHashOf(r) == IF r = 1 THEN "0xabc1" ELSE "0xabc2"

NoBridgeArgs == <<>>

IdleRequest ==
  [pc |-> "idle", entry |-> "", payload |-> NoPayload,
   requirements |-> NoRequirements, response |-> NoResponse,
   verifyResult |-> NoResponse, result |-> NoResponse,
   schemeRequirements |-> NoRequirements, schemeLookups |-> 0,
   schemeVerifyCalls |-> 0, schemeSettleCalls |-> 0, liquidityChecks |-> 0,
   bridgeCalls |-> 0, bridgeArgs |-> NoBridgeArgs, bridgeFailedAt |-> "",
   bridgeTxHash |-> "", rate |-> NULL, handler |-> "", steps |-> <<>>,
   stages |-> <<>>, completionArg |-> ""]

FacInit ==
  /\ CROSS_CHAIN_ENABLED \in BOOLEAN
  /\ bridgeLiquidity \in BOOLEAN
  /\ consumed = {}
  /\ requests = [r \in Reqs |-> IdleRequest]

Update(r, q) == requests' = [requests EXCEPT ![r] = q]

\* What the POST /verify and POST /settle handlers hand the request to:
\* await facilitator.verify(...) and await facilitator.settle(...), whatever
\* the payload carries.
EndpointHandler(payload) == "x402Facilitator"

\* const crossChainRouter = new CrossChainRouter(..., { isEnabled: CROSS_CHAIN_ENABLED })
isEnabled == CROSS_CHAIN_ENABLED

(* ---------------- BridgeService -------------------------------------- *)

\* Rates the external price source may report (the placeholder reports 1).
OracleRates == {0, 1}

toLowerCase(address) ==
  CASE address = UsdcBase -> UsdcBaseLower
    [] address = UsdcEth -> "0x1c7d4b196cb0c7b01d743fbc6116a902379c7238"
    [] OTHER -> address

\* Mutant: the addresses are compared as written.
isSameAssetExact(asset1, asset2) == asset1 = asset2

\* BridgeService.isSameAsset
isSameAsset(asset1, asset2) == toLowerCase(asset1) = toLowerCase(asset2)

\* BridgeService.getExchangeRate, with the rate the price source reports
getExchangeRate(sourceAsset, destAsset, oracleRate) ==
  IF isSameAsset(sourceAsset, destAsset) THEN 1 ELSE oracleRate

\* BridgeService.checkLiquidity: the provider's answer
checkLiquidity == bridgeLiquidity

(* ---------------- the payment scheme (ExactEvmScheme) ----------------- *)

\* scheme.verify(payload, requirements): the result, or "throws"
SchemeVerify(payload) ==
  CASE payload.signed = "good" -> VerifyResponse(TRUE, NoReason, PayerAddress)
    [] payload.signed = "bad" ->
         VerifyResponse(FALSE, Reason("invalid_exact_evm_payload_signature"),
                        PayerAddress)
    [] OTHER -> Thrown("verify: rpc request failed")

\* Mutant: the chain accepts an authorization it has executed before.
SchemeSettleResultsReplayable(r, payload, reqs) ==
  IF payload.signed = "good"
  THEN {SettleResponse(TRUE, NoReason, TxHashOf(r), reqs.network,
                       PayerAddress)}
  ELSE {Thrown("settle: rpc request failed")}

\* scheme.settle(payload, requirements): the results the chain write may have
SchemeSettleResults(r, payload, reqs) ==
  IF payload.signed = "throws" THEN {Thrown("settle: rpc request failed")}
  ELSE IF payload.signed = "bad"
  THEN {SettleResponse(FALSE, Reason("invalid_exact_evm_payload_signature"),
                       "", reqs.network, PayerAddress)}
  ELSE { SettleResponse(FALSE, Reason("transaction_failed"), "",
                        reqs.network, PayerAddress),
         Thrown("settle: rpc request failed"),
         ThrownText(SettlementAborted),
         ThrownText(SettlementAbortedWrapped) }
       \cup IF payload \in consumed THEN {}
            ELSE {SettleResponse(TRUE, NoReason, TxHashOf(r), reqs.network,
                                 PayerAddress)}

(* ---------------- x402Facilitator hooks ------------------------------- *)

\* facilitator.verify after the beforeVerify hooks: dispatch to the scheme
\* registered for (scheme, network); none registered is an exception, which
\* runs onVerifyFailure and reaches the handler's catch.
DispatchVerify(q) ==
  IF <<q.requirements.scheme, q.requirements.network>> \in RegisteredKinds
  THEN [q EXCEPT !.pc = "scheme.verify", !.schemeVerifyCalls = @ + 1,
                 !.schemeRequirements = q.requirements,
                 !.steps = Append(@, "scheme.verify")]
  ELSE [q EXCEPT !.pc = "done", !.steps = Append(@, "verifyFailure"),
                 !.response = HttpError(500, "unsupported_scheme_or_network")]

\* A beforeVerify hook returned { abort: true, reason }.
AbortVerify(q, reason) ==
  [q EXCEPT !.pc = "done",
            !.response = Json(VerifyResponse(FALSE, Reason(reason), ""))]

\* Mutant: the liquidity answer is not acted on.
LiquidityAbortsNever(hasLiquidity) == FALSE

\* if (!hasLiquidity) return { abort: true, ... }
LiquidityAborts(hasLiquidity) == ~hasLiquidity

\* Mutant: a payload that was answered before is refused as a duplicate.
OnBeforeVerifyOncePerPayload(q) ==
  LET crossChainInfo == extractCrossChainInfo(q.payload)
      h == [q EXCEPT !.steps = Append(@, "beforeVerify")]
  IN
  IF \E r \in Reqs : /\ requests[r].pc = "done"
                      /\ requests[r].entry = "POST /verify"
                      /\ requests[r].payload = q.payload
  THEN AbortVerify(h, "duplicate_payment")
  ELSE IF crossChainInfo # NoInfo /\ CROSS_CHAIN_ENABLED
  THEN [h EXCEPT !.pc = "checkLiquidity", !.liquidityChecks = @ + 1]
  ELSE DispatchVerify(h)

\* onBeforeVerify, to its first await
OnBeforeVerify(q) ==
  LET crossChainInfo == extractCrossChainInfo(q.payload) IN
  IF crossChainInfo # NoInfo /\ CROSS_CHAIN_ENABLED
  THEN [q EXCEPT !.pc = "checkLiquidity", !.liquidityChecks = @ + 1,
                 !.steps = Append(@, "beforeVerify")]
  ELSE DispatchVerify([q EXCEPT !.steps = Append(@, "beforeVerify")])

\* onBeforeVerify resumed with checkLiquidity's answer
OnLiquidityChecked(q, hasLiquidity) ==
  LET crossChainInfo == extractCrossChainInfo(q.payload) IN
  IF LiquidityAborts(hasLiquidity)
  THEN AbortVerify(q, "insufficient_bridge_liquidity")
  ELSE IF q.requirements.asset # crossChainInfo.destinationAsset
  THEN [q EXCEPT !.pc = "getExchangeRate"]
  ELSE DispatchVerify(q)

\* Mutant: only a negative rate aborts.
RateAbortsNegativeOnly(rate) == rate < 0

\* if (rate <= 0) return { abort: true, ... }
RateAborts(rate) == rate <= 0

\* onBeforeVerify resumed with getExchangeRate's answer
OnExchangeRate(q, rate) ==
  IF RateAborts(rate)
  THEN AbortVerify([q EXCEPT !.rate = rate], "invalid_exchange_rate")
  ELSE DispatchVerify([q EXCEPT !.rate = rate])

\* facilitator.settle after the beforeSettle hooks: dispatch to the scheme
\* registered for (scheme, network).
DispatchSettle(q) ==
  IF <<q.requirements.scheme, q.requirements.network>> \in RegisteredKinds
  THEN [q EXCEPT !.pc = "scheme.settle", !.schemeSettleCalls = @ + 1,
                 !.schemeRequirements = q.requirements,
                 !.steps = Append(@, "scheme.settle")]
  ELSE [q EXCEPT !.pc = "done", !.steps = Append(@, "settleFailure"),
                 !.response = HttpError(500, "unsupported_scheme_or_network")]

\* onBeforeSettle: it extracts the extension and logs, and never aborts.
OnBeforeSettle(q) ==
  DispatchSettle([q EXCEPT !.steps = Append(@, "beforeSettle")])

\* Mutant: bridging starts whatever CROSS_CHAIN_ENABLED says.
ShouldBridgeIgnoringSwitch(crossChainInfo, result) ==
  /\ crossChainInfo # NoInfo
  /\ result.ok
  /\ result.network # crossChainInfo.destinationNetwork

\* Mutant: bridging starts whether or not the settlement succeeded.
ShouldBridgeIgnoringSuccess(crossChainInfo, result) ==
  /\ crossChainInfo # NoInfo
  /\ result.network # crossChainInfo.destinationNetwork
  /\ CROSS_CHAIN_ENABLED

\* onAfterSettle: crossChainInfo && result.success &&
\* result.network !== crossChainInfo.destinationNetwork && CROSS_CHAIN_ENABLED
ShouldBridge(crossChainInfo, result) ==
  /\ crossChainInfo # NoInfo
  /\ result.ok
  /\ result.network # crossChainInfo.destinationNetwork
  /\ CROSS_CHAIN_ENABLED

\* Mutant: the source asset and payTo of the requirements are bridged.
BridgeArgumentsFromRequirements(result, crossChainInfo, requirements) ==
  <<result.network, result.transaction, crossChainInfo.destinationNetwork,
    requirements.asset, requirements.amount, requirements.payTo>>

\* bridgeService.bridge(result.network, result.transaction, destinationNetwork,
\*                      destinationAsset, requirements.amount, destinationPayTo)
BridgeArguments(result, crossChainInfo, requirements) ==
  <<result.network, result.transaction, crossChainInfo.destinationNetwork,
    crossChainInfo.destinationAsset, requirements.amount,
    crossChainInfo.destinationPayTo>>

\* Mutant: no error is taken for an aborted settlement.
IsSettlementAbortedNever(message) == FALSE

\* error.message.includes("Settlement aborted:")
IsSettlementAborted(message) ==
  \E i \in 1..Len(message) : message[i] = "Settlement aborted:"

\* error.message.replace("Settlement aborted: ", ""): the first occurrence of
\* the words and the blank after them is taken out.
StripSettlementAborted(message) ==
  LET at == { i \in 1..(Len(message) - 1) :
                message[i] = "Settlement aborted:" /\ message[i + 1] = " " }
  IN IF at = {} THEN message
     ELSE LET i == CHOOSE k \in at : \A j \in at : k <= j
          IN SubSeq(message, 1, i - 1) \o SubSeq(message, i + 2, Len(message))

\* req.body?.paymentPayload?.network || "unknown"
PayloadNetworkOrUnknown(payload) ==
  IF payload.network = Undefined THEN "unknown" ELSE payload.network

\* The catch block of the POST /settle handler, given the error's message.
SettleCatch(q, message) ==
  IF IsSettlementAborted(message)
  THEN Json(SettleResponse(FALSE, StripSettlementAborted(message), "",
                           PayloadNetworkOrUnknown(q.payload), ""))
  ELSE HttpErrorText(500, message)

\* The POST /settle handler answers with facilitator.settle's result.
RespondSettle(q) == [q EXCEPT !.pc = "done", !.response = Json(q.result)]

\* onAfterSettle, to its first await (inside bridge()) or to its end.
OnAfterSettle(q) ==
  LET crossChainInfo == extractCrossChainInfo(q.payload)
      h == [q EXCEPT !.steps = Append(@, "afterSettle")]
  IN
  IF ShouldBridge(crossChainInfo, q.result)
  THEN [h EXCEPT !.pc = "bridge.waitForSourceConfirmation",
                 !.stages = Append(@, "bridge.waitForSourceConfirmation"),
                 !.bridgeCalls = @ + 1,
                 !.bridgeArgs = BridgeArguments(q.result, crossChainInfo,
                                                q.requirements)]
  ELSE RespondSettle(h)

\* Mutant: the completion wait follows the source confirmation directly.
BridgeStageAfterSkipsInitiate(stage) == "bridge.waitForBridgeCompletion"

\* bridge(): the await that follows the given one
BridgeStageAfter(stage) ==
  IF stage = "bridge.waitForSourceConfirmation"
  THEN "bridge.initiateBridge"
  ELSE "bridge.waitForBridgeCompletion"

\* bridge() calls the next stage; waitForBridgeCompletion is given the
\* bridgeTxHash variable.
EnterBridgeStage(q, stage) ==
  [q EXCEPT !.pc = stage, !.stages = Append(@, stage),
            !.completionArg = IF stage = "bridge.waitForBridgeCompletion"
                              THEN q.bridgeTxHash ELSE @]

\* Mutant: no try/catch around the bridge call.
BridgeFailureIsCaughtNot == FALSE

\* try { await bridgeService.bridge(...) } catch (error) { console.error }
BridgeFailureIsCaught == TRUE

\* bridge() threw at the given stage, inside onAfterSettle.
OnBridgeFailure(q, stage) ==
  IF BridgeFailureIsCaught
  THEN RespondSettle([q EXCEPT !.bridgeFailedAt = stage])
  ELSE [q EXCEPT !.pc = "done", !.bridgeFailedAt = stage,
                 !.response = HttpError(500, "bridge failed")]

(* ---------------- CrossChainRouter ------------------------------------ *)

\* Mutant: with bridging disabled the router pays the bridge lock address.
SourcePayToLockAddress(requirements, enabled) == FacilitatorAddress

\* payTo of sourceRequirements: requirements.payTo in verify and in both
\* branches of settle
SourcePayTo(requirements, enabled) == requirements.payTo

\* Mutant: extra is not carried over.
SourceRequirementsWithoutExtra(requirements, enabled) ==
  [scheme |-> requirements.scheme, network |-> requirements.network,
   asset |-> requirements.asset, amount |-> requirements.amount,
   payTo |-> requirements.payTo,
   maxTimeoutSeconds |-> requirements.maxTimeoutSeconds,
   extra |-> ""]

\* const sourceRequirements: PaymentRequirements = { ... }
SourceRequirements(requirements, enabled) ==
  [scheme |-> requirements.scheme, network |-> requirements.network,
   asset |-> requirements.asset, amount |-> requirements.amount,
   payTo |-> SourcePayTo(requirements, enabled),
   maxTimeoutSeconds |-> requirements.maxTimeoutSeconds,
   extra |-> requirements.extra]

\* A router call returns (or throws) to its caller.
Return(q, response) == [q EXCEPT !.pc = "done", !.response = response]

\* CrossChainRouter.verify, to its await of schemeFacilitator.verify or to
\* its return value, left in verifyResult.
RouterVerify(q) ==
  LET crossChainInfo == extractCrossChainInfo(q.payload) IN
  IF crossChainInfo = NoInfo
  THEN [q EXCEPT !.pc = "verified",
          !.verifyResult =
             VerifyResponse(FALSE, Reason("missing_cross_chain_extension"), "")]
  ELSE IF q.requirements.scheme \notin schemeFacilitators
  THEN [q EXCEPT !.pc = "verified", !.schemeLookups = @ + 1,
          !.verifyResult =
             VerifyResponse(FALSE, NotSupportedForScheme(q.requirements.scheme),
                            "")]
  ELSE [q EXCEPT !.pc = "scheme.verify", !.schemeLookups = @ + 1,
          !.schemeVerifyCalls = @ + 1,
          !.schemeRequirements = SourceRequirements(q.requirements, TRUE)]

\* Mutant: no try/catch around the base scheme's verify.
RouterVerifyResultUncaught(outcome) == outcome

\* try { return await schemeFacilitator.verify(...) } catch (error) { ... }
RouterVerifyResult(outcome) ==
  IF outcome.kind = "thrown"
  THEN VerifyResponse(FALSE, SourceVerificationFailed(outcome.reason[1]), "")
  ELSE outcome

\* Mutant: the failed settle reports a generic reason.
SettleOnInvalidGeneric(verifyResult, requirements) ==
  SettleResponse(FALSE, Reason("verification_failed"), "",
                 requirements.network, verifyResult.payer)

\* if (!verifyResult.isValid) return { success: false, ... }
SettleOnInvalid(verifyResult, requirements) ==
  SettleResponse(FALSE, verifyResult.reason, "", requirements.network,
                 verifyResult.payer)

\* Mutant: settlement goes ahead whatever verify said.
ProceedsAfterVerifyAlways(verifyResult) == TRUE

\* settle continues past the re-verification only when it was valid
ProceedsAfterVerify(verifyResult) == verifyResult.ok

\* CrossChainRouter.settle resumed with this.verify's result, to its await of
\* schemeFacilitator.settle or to its return.
RouterSettleAfterVerify(q, verifyResult) ==
  LET crossChainInfo == extractCrossChainInfo(q.payload)
      v == [q EXCEPT !.verifyResult = verifyResult]
  IN
  IF ~ProceedsAfterVerify(verifyResult)
  THEN Return(v, SettleOnInvalid(verifyResult, q.requirements))
  ELSE IF crossChainInfo = NoInfo
  THEN Return(v, SettleResponse(FALSE, Reason("missing_cross_chain_extension"),
                                "", q.requirements.network, verifyResult.payer))
  ELSE IF q.requirements.scheme \notin schemeFacilitators
  THEN Return([v EXCEPT !.schemeLookups = @ + 1],
              SettleResponse(FALSE,
                             NotSupportedForScheme(q.requirements.scheme), "",
                             q.requirements.network, verifyResult.payer))
  ELSE [v EXCEPT !.pc = "scheme.settle", !.schemeLookups = @ + 1,
                 !.schemeSettleCalls = @ + 1,
                 !.schemeRequirements =
                    SourceRequirements(q.requirements, isEnabled)]

\* Mutant: a successful result names the chain the funds are bridged to.
RouterSettleResultDestination(q, settleResult) ==
  IF settleResult.kind = "thrown" \/ ~settleResult.ok THEN settleResult
  ELSE [settleResult EXCEPT
          !.network = extractCrossChainInfo(q.payload).destinationNetwork]

\* Mutant: a failed settlement is reported with a reason of the router's own.
RouterSettleResultOwnFailure(q, settleResult) ==
  IF settleResult.kind = "thrown" THEN settleResult
  ELSE IF ~settleResult.ok
  THEN SettleResponse(FALSE, Reason("source_chain_settlement_failed"), "",
                      q.requirements.network, "")
  ELSE [settleResult EXCEPT !.network = q.requirements.network]

\* CrossChainRouter.settle resumed with schemeFacilitator.settle's result.
RouterSettleResult(q, settleResult) ==
  IF settleResult.kind = "thrown" THEN settleResult
  ELSE IF ~isEnabled
  THEN [settleResult EXCEPT !.network = q.requirements.network]
  ELSE IF ~settleResult.ok THEN settleResult
  ELSE [settleResult EXCEPT !.network = q.requirements.network]

(* ---------------- actions ---------------------------------------------- *)

\* app.post("/verify"): a request arrives; the handler runs to its first await.
PostVerify(r) ==
  /\ requests[r].pc = "idle"
  /\ \E payload \in Payloads \cup {NoPayload}, reqs \in RequirementsSet :
       LET q == [requests[r] EXCEPT !.entry = "POST /verify",
                                    !.payload = payload,
                                    !.requirements = reqs]
       IN IF payload = NoPayload
          THEN Update(r, [q EXCEPT !.pc = "done",
                 !.response = HttpError(400,
                    "Missing paymentPayload or paymentRequirements")])
          ELSE Update(r, OnBeforeVerify(
                            [q EXCEPT !.handler = EndpointHandler(payload)]))
  /\ UNCHANGED <<payVars, chainVars, clientVars, CROSS_CHAIN_ENABLED, bridgeLiquidity, consumed>>

\* app.post("/settle"): a request arrives; the handler runs to its first await.
PostSettle(r) ==
  /\ requests[r].pc = "idle"
  /\ \E payload \in Payloads \cup {NoPayload}, reqs \in RequirementsSet :
       LET q == [requests[r] EXCEPT !.entry = "POST /settle",
                                    !.payload = payload,
                                    !.requirements = reqs]
       IN IF payload = NoPayload
          THEN Update(r, [q EXCEPT !.pc = "done",
                 !.response = HttpError(400,
                    "Missing paymentPayload or paymentRequirements")])
          ELSE Update(r, OnBeforeSettle(
                            [q EXCEPT !.handler = EndpointHandler(payload)]))
  /\ UNCHANGED <<payVars, chainVars, clientVars, CROSS_CHAIN_ENABLED, bridgeLiquidity, consumed>>

\* crossChainRouter.verify(payload, requirements) is called.
RouterVerifyCall(r) ==
  /\ requests[r].pc = "idle"
  /\ \E payload \in Payloads, reqs \in RequirementsSet :
       LET q == RouterVerify([requests[r] EXCEPT !.entry = "router.verify",
                                                 !.handler = "CrossChainRouter",
                                                 !.payload = payload,
                                                 !.requirements = reqs])
       IN Update(r, IF q.pc = "verified" THEN Return(q, q.verifyResult) ELSE q)
  /\ UNCHANGED <<payVars, chainVars, clientVars, CROSS_CHAIN_ENABLED, bridgeLiquidity, consumed>>

\* crossChainRouter.settle(payload, requirements) is called.
RouterSettleCall(r) ==
  /\ requests[r].pc = "idle"
  /\ \E payload \in Payloads, reqs \in RequirementsSet :
       LET q == RouterVerify([requests[r] EXCEPT !.entry = "router.settle",
                                                 !.handler = "CrossChainRouter",
                                                 !.payload = payload,
                                                 !.requirements = reqs])
       IN Update(r, IF q.pc = "verified"
                    THEN RouterSettleAfterVerify(q, q.verifyResult)
                    ELSE q)
  /\ UNCHANGED <<payVars, chainVars, clientVars, CROSS_CHAIN_ENABLED, bridgeLiquidity, consumed>>

\* await bridgeService.checkLiquidity(...) resolves.
CheckLiquidityReturns(r) ==
  /\ requests[r].pc = "checkLiquidity"
  /\ Update(r, OnLiquidityChecked(requests[r], checkLiquidity))
  /\ UNCHANGED <<payVars, chainVars, clientVars, CROSS_CHAIN_ENABLED, bridgeLiquidity, consumed>>

\* await bridgeService.getExchangeRate(...) resolves.
GetExchangeRateReturns(r) ==
  /\ requests[r].pc = "getExchangeRate"
  /\ \E oracleRate \in OracleRates :
       Update(r, OnExchangeRate(requests[r],
                   getExchangeRate(requests[r].requirements.asset,
                      extractCrossChainInfo(requests[r].payload).destinationAsset,
                      oracleRate)))
  /\ UNCHANGED <<payVars, chainVars, clientVars, CROSS_CHAIN_ENABLED, bridgeLiquidity, consumed>>

\* await scheme.verify(...) settles: in facilitator.verify, in
\* CrossChainRouter.verify, or in the verify CrossChainRouter.settle starts with.
SchemeVerifyReturns(r) ==
  LET q == requests[r]
      outcome == SchemeVerify(q.payload)
  IN
  /\ q.pc = "scheme.verify"
  /\ CASE q.entry = "POST /verify" ->
            Update(r, [q EXCEPT !.pc = "done",
                         !.steps = Append(@, IF outcome.kind = "thrown"
                                             THEN "verifyFailure"
                                             ELSE "afterVerify"),
                         !.response =
                            IF outcome.kind = "thrown"
                            THEN HttpError(500, outcome.reason[1])
                            ELSE Json(outcome)])
       [] q.entry = "router.verify" ->
            Update(r, Return([q EXCEPT !.verifyResult =
                                          RouterVerifyResult(outcome)],
                             RouterVerifyResult(outcome)))
       [] OTHER ->
            Update(r, RouterSettleAfterVerify(q, RouterVerifyResult(outcome)))
  /\ UNCHANGED <<payVars, chainVars, clientVars, CROSS_CHAIN_ENABLED, bridgeLiquidity, consumed>>

\* await scheme.settle(...) settles: in facilitator.settle (onAfterSettle
\* follows) or in CrossChainRouter.settle.
SchemeSettleReturns(r) ==
  LET q == requests[r] IN
  /\ q.pc = "scheme.settle"
  /\ \E outcome \in SchemeSettleResults(r, q.payload, q.schemeRequirements) :
       /\ consumed' = IF outcome.ok THEN consumed \cup {q.payload}
                      ELSE consumed
       /\ IF q.entry = "POST /settle"
          THEN IF outcome.kind = "thrown"
               THEN Update(r, [q EXCEPT !.pc = "done", !.result = outcome,
                                 !.steps = Append(@, "settleFailure"),
                                 !.response = SettleCatch(q, outcome.reason)])
               ELSE Update(r, OnAfterSettle([q EXCEPT !.result = outcome]))
          ELSE Update(r, Return([q EXCEPT !.result = outcome],
                                RouterSettleResult(q, outcome)))
  /\ UNCHANGED <<payVars, chainVars, clientVars, CROSS_CHAIN_ENABLED, bridgeLiquidity>>

\* bridge(): await this.waitForSourceConfirmation(...) resolves and
\* initiateBridge is called.
BridgeSourceConfirmed(r) ==
  /\ requests[r].pc = "bridge.waitForSourceConfirmation"
  /\ Update(r, EnterBridgeStage(requests[r], BridgeStageAfter(requests[r].pc)))
  /\ UNCHANGED <<payVars, chainVars, clientVars, CROSS_CHAIN_ENABLED, bridgeLiquidity, consumed>>

\* bridge(): await this.initiateBridge(...) resolves with the bridge
\* transaction and waitForBridgeCompletion is called with it.
BridgeInitiated(r) ==
  /\ requests[r].pc = "bridge.initiateBridge"
  /\ Update(r, EnterBridgeStage([requests[r] EXCEPT !.bridgeTxHash = "0xbridge"],
                                BridgeStageAfter(requests[r].pc)))
  /\ UNCHANGED <<payVars, chainVars, clientVars, CROSS_CHAIN_ENABLED, bridgeLiquidity, consumed>>

\* bridge(): await this.waitForBridgeCompletion(...) resolves; bridge()
\* returns, onAfterSettle logs and ends, the handler answers.
BridgeCompleted(r) ==
  /\ requests[r].pc = "bridge.waitForBridgeCompletion"
  /\ Update(r, RespondSettle(requests[r]))
  /\ UNCHANGED <<payVars, chainVars, clientVars, CROSS_CHAIN_ENABLED, bridgeLiquidity, consumed>>

\* One of bridge()'s awaits rejects.
BridgeStageFails(r) ==
  /\ requests[r].pc \in {"bridge.waitForSourceConfirmation",
                         "bridge.initiateBridge",
                         "bridge.waitForBridgeCompletion"}
  /\ Update(r, OnBridgeFailure(requests[r], requests[r].pc))
  /\ UNCHANGED <<payVars, chainVars, clientVars, CROSS_CHAIN_ENABLED, bridgeLiquidity, consumed>>

(***************************************************************************)
(* Part IV: the cross-chain extension, character by character              *)
(*                                                                         *)
(* A string is the sequence of its runs of characters; a run stands for    *)
(* the characters it is written with, and RunLength is their number.       *)
(***************************************************************************)

\* A value as typeof sees it.
Str(text) == [type |-> "string", text |-> text]
NotAString == [type |-> "number", text |-> <<>>]
Missing == [type |-> "undefined", text |-> <<>>]

\* Runs matching \d+
DigitRuns == {"137", "84532"}

\* Runs matching [a-fA-F0-9]+
HexRuns == {"036CbD53842c5426634e", "7929541ec2318f3dcf7e", "ab"}

RunLength(run) ==
  CASE run = "036CbD53842c5426634e" -> 20
    [] run = "7929541ec2318f3dcf7e" -> 20
    [] run = "ab" -> 2
    [] run = "Merchant" -> 8
    [] run = "137" -> 3
    [] run = "84532" -> 5
    [] run = "eip155:" -> 7
    [] run = "solana:" -> 7
    [] OTHER -> 2

RECURSIVE TotalLength(_, _)
TotalLength(text, from) ==
  IF from > Len(text) THEN 0
  ELSE RunLength(text[from]) + TotalLength(text, from + 1)

\* /^eip155:\d+$/.test(text)
TestEip155(text) ==
  /\ Len(text) >= 2
  /\ text[1] = "eip155:"
  /\ \A i \in 2..Len(text) : text[i] \in DigitRuns

\* Mutant: the number of hex digits is not tested.
TestHexAddressAnyLength(text) ==
  /\ Len(text) >= 2
  /\ text[1] = "0x"
  /\ \A i \in 2..Len(text) : text[i] \in HexRuns

\* /^0x[a-fA-F0-9]{40}$/.test(text)
TestHexAddress(text) ==
  /\ Len(text) >= 2
  /\ text[1] = "0x"
  /\ \A i \in 2..Len(text) : text[i] \in HexRuns
  /\ TotalLength(text, 2) = 40

\* Values a destinationNetwork may be given.
NetworkValues ==
  { Str(<<"eip155:", "137">>), Str(<<"eip155:", "84532">>),
    Str(<<"eip155:">>), Str(<<"eip155:", "137", "\n">>),
    Str(<<"solana:", "137">>), Str(<<" ", "eip155:", "137">>),
    NotAString, Missing }

\* Values a destinationAsset or destinationPayTo may be given.
AddressValues ==
  { Str(<<"0x", "036CbD53842c5426634e", "7929541ec2318f3dcf7e">>),
    Str(<<"0x", "7929541ec2318f3dcf7e", "7929541ec2318f3dcf7e">>),
    Str(<<"0x", "036CbD53842c5426634e">>),
    Str(<<"0x", "036CbD53842c5426634e", "7929541ec2318f3dcf7e", "ab">>),
    Str(<<"0x", "Merchant">>),
    Str(<<"0X", "036CbD53842c5426634e", "7929541ec2318f3dcf7e">>),
    NotAString, Missing }

\* CrossChainExtensionParams
ParamsSet ==
  [destinationNetwork : NetworkValues, destinationAsset : AddressValues,
   destinationPayTo : AddressValues]

\* declareCrossChainExtension(params)
declareCrossChainExtension(params) ==
  [info |-> [destinationNetwork |-> params.destinationNetwork,
             destinationAsset |-> params.destinationAsset,
             destinationPayTo |-> params.destinationPayTo],
   schema |-> "object"]

\* A payload: what typeof says of payload.extensions, of its "cross-chain"
\* entry and of the entry's info, and the info's three fields.
PayloadWith(extensions, entry, infoType, info) ==
  [extensions |-> extensions, entry |-> entry, infoType |-> infoType,
   info |-> info]

\* The payload of a client that copied the declared extension.
PayloadCarrying(extension) ==
  PayloadWith("object", "object", "object", extension.info)

NoExtPayload ==
  PayloadWith("undefined", "undefined", "undefined",
              [destinationNetwork |-> Missing, destinationAsset |-> Missing,
               destinationPayTo |-> Missing])

\* CrossChainInfo | null
NullInfo == [null |-> TRUE, info |-> NoExtPayload.info]
Info(info) == [null |-> FALSE, info |-> info]

\* extractCrossChainInfo(payload), with the pattern tests on characters
extractCrossChainInfoText(payload) ==
  IF payload.extensions # "object" THEN NullInfo
  ELSE IF payload.entry # "object" THEN NullInfo
  ELSE IF payload.infoType # "object" THEN NullInfo
  ELSE IF /\ payload.info.destinationNetwork.type = "string"
          /\ payload.info.destinationAsset.type = "string"
          /\ payload.info.destinationPayTo.type = "string"
          /\ TestEip155(payload.info.destinationNetwork.text)
          /\ TestHexAddress(payload.info.destinationAsset.text)
          /\ TestHexAddress(payload.info.destinationPayTo.text)
       THEN Info([destinationNetwork |-> payload.info.destinationNetwork,
                  destinationAsset |-> payload.info.destinationAsset,
                  destinationPayTo |-> payload.info.destinationPayTo])
       ELSE NullInfo

ExtInit ==
  /\ extPc = "idle"
  /\ extParams = NoExtPayload.info
  /\ extPayload = NoExtPayload
  /\ extResult = NullInfo

\* What the actions of this part leave alone.
OutsideExt == <<payVars, facVars, chainVars, getVars, axVars>>

\* The server declares the extension and the client copies it into its
\* payload.
DeclareExtension ==
  /\ extPc = "idle"
  /\ \E params \in ParamsSet :
       /\ extParams' = params
       /\ extPayload' = PayloadCarrying(declareCrossChainExtension(params))
  /\ extPc' = "built"
  /\ UNCHANGED <<OutsideExt, extResult>>

\* A client sends a payload whose extensions, "cross-chain" entry or info is
\* not an object.
SendBrokenExtension ==
  /\ extPc = "idle"
  /\ \E params \in ParamsSet,
        shape \in { <<"undefined", "undefined", "undefined">>,
                    <<"string", "undefined", "undefined">>,
                    <<"object", "undefined", "undefined">>,
                    <<"object", "string", "undefined">>,
                    <<"object", "object", "undefined">>,
                    <<"object", "object", "string">> } :
       /\ params.destinationNetwork.type = "string"
       /\ extParams' = params
       /\ extPayload' = PayloadWith(shape[1], shape[2], shape[3],
                                    declareCrossChainExtension(params).info)
  /\ extPc' = "built"
  /\ UNCHANGED <<OutsideExt, extResult>>

\* extractCrossChainInfo(payload) is called.
ExtractExtension ==
  /\ extPc = "built"
  /\ extResult' = extractCrossChainInfoText(extPayload)
  /\ extPc' = "extracted"
  /\ UNCHANGED <<OutsideExt, extParams, extPayload>>

(***************************************************************************)
(* Part V: X402Client.get and the search for the payment's transaction     *)
(***************************************************************************)

\* The chain's block number when the model starts, and the last block it
\* mines.
FirstHead == 100
MaxHead == 103

\* Look back 10 blocks: blockNumber - 10n
LookBack == 10

\* for (let attempt = 1; attempt <= 10; attempt++)
MaxLogAttempts == 10

\* Values of the payer's transfers to the payee.
TransferValues == {10000, 20000}

\* Payment options a 402 response may offer.
OptionBase ==
  [network |-> BaseSepolia, amount |-> 10000, asset |-> UsdcBase,
   payTo |-> MerchantAddress]
OptionEth ==
  [network |-> EthSepolia, amount |-> 20000, asset |-> UsdcEth,
   payTo |-> MerchantAddress]
NoOption == [network |-> "", amount |-> 0, asset |-> "", payTo |-> ""]
OfferedOptions ==
  {<<OptionBase>>, <<OptionEth, OptionBase>>, <<OptionEth>>}

\* options.find(o => o.network === 'eip155:84532') || options[0]
SelectOption(options) ==
  IF \E i \in 1..Len(options) : options[i].network = "eip155:84532"
  THEN options[CHOOSE i \in 1..Len(options) :
                 /\ options[i].network = "eip155:84532"
                 /\ \A j \in 1..(i - 1) : options[j].network # "eip155:84532"]
  ELSE options[1]

NoLog == [blockNumber |-> NULL, value |-> NULL, transactionHash |-> NULL]

\* A bigint | undefined used as a condition
Truthy(n) == n # NULL /\ n # 0

\* const searchFromBlock = startBlock ? startBlock : (blockNumber - 10n)
SearchFromBlock(start, latest) ==
  IF Truthy(start) THEN start ELSE latest - LookBack

\* publicClient.getLogs({ ..., fromBlock, toBlock: 'latest' })
GetLogs(fromBlock) ==
  LET InRange(log) == log.blockNumber >= fromBlock
  IN SelectSeq(transfers, InRange)

\* const expectedAmount = this.currentOptions.amount ? BigInt(...) : 0n
ExpectedAmount(options) == options.amount

\* for (let i = logs.length - 1; i >= 0; i--): the log whose hash is taken,
\* or none
RECURSIVE FreshLog(_, _, _, _)
FreshLog(logs, i, start, expectedAmount) ==
  IF i = 0 THEN NoLog
  ELSE IF Truthy(start) /\ logs[i].blockNumber >= start
  THEN IF expectedAmount > 0 /\ logs[i].value # expectedAmount
       THEN FreshLog(logs, i - 1, start, expectedAmount)
       ELSE logs[i]
  ELSE IF ~Truthy(start) THEN logs[i]
  ELSE FreshLog(logs, i - 1, start, expectedAmount)

GetInit ==
  /\ getPc = "idle"
  /\ startBlock = NULL
  /\ startHead = NULL
  /\ head = FirstHead
  /\ transfers = <<>>
  /\ currentOptions = NoOption
  /\ blockNumber = NULL
  /\ getAttempt = 0
  /\ reported = NoLog


\* What the actions of this part leave alone.
OutsideGet == <<payVars, facVars, chainVars, extVars, axVars>>

\* The chain mines a block, with or without a transfer from the payer to
\* the payee in it.
MineBlock ==
  /\ head < MaxHead
  /\ head' = head + 1
  /\ \/ UNCHANGED transfers
     \/ \E v \in TransferValues :
          transfers' = Append(transfers,
                         [blockNumber |-> head + 1, value |-> v,
                          transactionHash |-> Len(transfers) + 1])
  /\ UNCHANGED <<OutsideGet, getPc, startBlock, startHead, currentOptions,
                 blockNumber, getAttempt, reported>>

\* get(endpoint) is called: the raw eth_blockNumber request is sent.
GetCalled ==
  /\ getPc = "idle"
  /\ getPc' = "eth_blockNumber"
  /\ startHead' = head
  /\ UNCHANGED <<OutsideGet, startBlock, head, transfers, currentOptions,
                 blockNumber, getAttempt, reported>>

\* startBlock = BigInt(blockData.result)
StartBlockFetched ==
  /\ getPc = "eth_blockNumber"
  /\ startBlock' = head
  /\ getPc' = "fetchWithPayment"
  /\ UNCHANGED <<OutsideGet, startHead, head, transfers, currentOptions,
                 blockNumber, getAttempt, reported>>

\* catch (e): "Could not get start block"; startBlock stays undefined.
StartBlockFailed ==
  /\ getPc = "eth_blockNumber"
  /\ getPc' = "fetchWithPayment"
  /\ UNCHANGED <<OutsideGet, startBlock, startHead, head, transfers,
                 currentOptions, blockNumber, getAttempt, reported>>

\* fetchWithPayment answered 402 first, an option was selected and paid, and
\* the response is ok.
FetchPaid ==
  /\ getPc = "fetchWithPayment"
  /\ \E options \in OfferedOptions : currentOptions' = SelectOption(options)
  /\ getPc' = "getBlockNumber"
  /\ UNCHANGED <<OutsideGet, startBlock, startHead, head, transfers,
                 blockNumber, getAttempt, reported>>

\* The response is ok without any payment (no option was selected), or it
\* is not ok, or fetchWithPayment threw.
FetchUnpaid ==
  /\ getPc = "fetchWithPayment"
  /\ getPc' = "done"
  /\ UNCHANGED <<OutsideGet, startBlock, startHead, head, transfers,
                 currentOptions, blockNumber, getAttempt, reported>>

\* const blockNumber = await publicClient.getBlockNumber(), the 4 s sleep,
\* and the first getLogs call
LatestBlockFetched ==
  /\ getPc = "getBlockNumber"
  /\ blockNumber' = head
  /\ getAttempt' = 1
  /\ getPc' = "getLogs"
  /\ UNCHANGED <<OutsideGet, startBlock, startHead, head, transfers,
                 currentOptions, reported>>

\* await publicClient.getLogs(...) resolves: the logs are scanned newest
\* first; without a fresh log the loop sleeps and polls again, 10 times.
LogsFetched ==
  LET logs == GetLogs(SearchFromBlock(startBlock, blockNumber))
      found == FreshLog(logs, Len(logs), startBlock,
                        ExpectedAmount(currentOptions))
  IN
  /\ getPc = "getLogs"
  /\ IF found # NoLog
     THEN /\ reported' = found
          /\ getPc' = "done"
          /\ UNCHANGED getAttempt
     ELSE IF getAttempt < MaxLogAttempts
     THEN /\ getAttempt' = getAttempt + 1
          /\ UNCHANGED <<reported, getPc>>
     ELSE /\ getPc' = "done"
          /\ UNCHANGED <<reported, getAttempt>>
  /\ UNCHANGED <<OutsideGet, startBlock, startHead, head, transfers,
                 currentOptions, blockNumber>>

\* getBlockNumber or getLogs rejects: catch (e), "Error searching for tx hash".
SearchFailed ==
  /\ getPc \in {"getBlockNumber", "getLogs"}
  /\ getPc' = "done"
  /\ UNCHANGED <<OutsideGet, startBlock, startHead, head, transfers,
                 currentOptions, blockNumber, getAttempt, reported>>

(***************************************************************************)
(* Part VI: the axios-based X402Client                                     *)
(***************************************************************************)

\* wallet.pay invocations after which the server stops asking for payment.
MaxPays == 3

\* Status codes the server answers with.
Statuses == {200, 402, 404, 500}

\* Bodies of a 402 answer: fields that are absent are "".
ChallengeBodies ==
  { [amount |-> a, address |-> d, currency |-> y] :
      a \in {"", "0.001", "0.01"}, d \in {"", MerchantAddress}, y \in {"", "ETH"} }

NoBody == [amount |-> "", address |-> "", currency |-> ""]

NoPaymentRequirement == [amount |-> "", currency |-> "", recipientAddress |-> ""]

\* parsePaymentRequirements(response)
parsePaymentRequirements(data) ==
  IF data.amount # "" /\ data.address # ""
  THEN [amount |-> data.amount,
        currency |-> IF data.currency # "" THEN data.currency ELSE "USDC",
        recipientAddress |-> data.address]
  ELSE NoPaymentRequirement

NoHeaders == [Authorization |-> <<>>, XPaymentToken |-> 0]

\* The proof wallet.pay resolves with: one per payment.
Proof(n) == n

\* { ...originalRequest.headers, 'Authorization': `L402 ${proof}`,
\*   'X-Payment-Token': proof }
RetryHeaders(headers, proof) ==
  [headers EXCEPT !.Authorization = <<"L402 ", proof>>,
                  !.XPaymentToken = proof]

NoAxiosResult == [kind |-> "none", status |-> 0, message |-> ""]

AxiosInit ==
  /\ axPc = "idle"
  /\ axMethod = ""
  /\ axSends = 0
  /\ axPays = 0
  /\ axPayArgs = NoPaymentRequirement
  /\ axHeaders = NoHeaders
  /\ axResult = NoAxiosResult

ClientInit == ExtInit /\ GetInit /\ AxiosInit

\* What the actions of this part leave alone.
OutsideAxios == <<payVars, facVars, chainVars, extVars, getVars>>

\* if (error.response && error.response.status === 402)
InterceptorPays(status, headers) == status = 402

\* get(url, config) / post(url, data, config): this.client.get / .post
AxiosRequest ==
  /\ axPc = "idle"
  /\ \E method \in {"get", "post"} : axMethod' = method
  /\ axPc' = "sent"
  /\ axSends' = 1
  /\ UNCHANGED <<OutsideAxios, axPays, axPayArgs, axHeaders, axResult>>

\* The server answers the request; the response interceptor runs, and on
\* 402 handle402 up to its await of wallet.pay.
ServerAnswers ==
  /\ axPc = "sent"
  /\ \E status \in Statuses, data \in ChallengeBodies :
       /\ status = 402 => axPays < MaxPays
       /\ status # 402 => data = NoBody
       /\ IF status = 200
          THEN /\ axPc' = "resolved"
               /\ axResult' = [kind |-> "response", status |-> status,
                               message |-> ""]
               /\ UNCHANGED <<axPays, axPayArgs>>
          ELSE IF InterceptorPays(status, axHeaders)
          THEN IF parsePaymentRequirements(data) = NoPaymentRequirement
               THEN /\ axPc' = "rejected"
                    /\ axResult' =
                         [kind |-> "error", status |-> 0,
                          message |-> "Could not parse payment requirements from 402 response"]
                    /\ UNCHANGED <<axPays, axPayArgs>>
               ELSE /\ axPc' = "pay"
                    /\ axPays' = axPays + 1
                    /\ axPayArgs' = parsePaymentRequirements(data)
                    /\ UNCHANGED axResult
          ELSE /\ axPc' = "rejected"
               /\ axResult' = [kind |-> "error", status |-> status,
                               message |-> "Request failed"]
               /\ UNCHANGED <<axPays, axPayArgs>>
  /\ UNCHANGED <<OutsideAxios, axMethod, axSends, axHeaders>>

\* No response arrives: error.response is undefined.
RequestFails ==
  /\ axPc = "sent"
  /\ axPc' = "rejected"
  /\ axResult' = [kind |-> "error", status |-> 0, message |-> "Network Error"]
  /\ UNCHANGED <<OutsideAxios, axMethod, axSends, axPays, axPayArgs,
                 axHeaders>>

\* await this.wallet.pay(...) resolves: the proof is put into the headers
\* and the request is sent again through this.client.
WalletPaid ==
  /\ axPc = "pay"
  /\ axHeaders' = RetryHeaders(axHeaders, Proof(axPays))
  /\ axSends' = axSends + 1
  /\ axPc' = "sent"
  /\ UNCHANGED <<OutsideAxios, axMethod, axPays, axPayArgs, axResult>>

\* await this.wallet.pay(...) rejects.
WalletFails ==
  /\ axPc = "pay"
  /\ axPc' = "rejected"
  /\ axResult' = [kind |-> "error", status |-> 0, message |-> "pay failed"]
  /\ UNCHANGED <<OutsideAxios, axMethod, axSends, axPays, axPayArgs,
                 axHeaders>>

vars == <<payVars, facVars, chainVars, clientVars>>

\* The sender's account before any pay() call.
ChainInit ==
  /\ chainNonce = 0
  /\ pool = {}
  /\ mined = {}
  /\ answered = [c \in Calls |-> NULL]

Init == PayInit /\ FacInit /\ ChainInit /\ ClientInit

Next ==
  \E r \in Reqs :
    \/ PostVerify(r)
    \/ PostSettle(r)
    \/ RouterVerifyCall(r)
    \/ RouterSettleCall(r)
    \/ CheckLiquidityReturns(r)
    \/ GetExchangeRateReturns(r)
    \/ SchemeVerifyReturns(r)
    \/ SchemeSettleReturns(r)
    \/ BridgeSourceConfirmed(r)
    \/ BridgeInitiated(r)
    \/ BridgeCompleted(r)
    \/ BridgeStageFails(r)

\* The facilitator process serving requests.
Spec == Init /\ [][Next]_vars

\* The wallet alone: no facilitator request is made.
PayOnlyInit ==
  /\ PayInit /\ FacInit /\ ChainInit /\ ClientInit
  /\ CROSS_CHAIN_ENABLED /\ bridgeLiquidity

PayNext ==
  \E c \in Calls :
    \/ PayStart(c)
    \/ GetTransactionCountReturns(c)
    \/ GetTransactionCountThrows(c)
    \/ SendTransactionReturns(c)
    \/ SendTransactionThrows(c)
    \/ ReceiptSuccess(c)
    \/ ReceiptReverted(c)
    \/ ReceiptThrows(c)

\* Concurrent RealWallet.pay calls.
PaySpec == PayOnlyInit /\ [][PayNext]_vars

\* The chain call that call c awaits returns: it resolves or rejects.
ChainCallReturns(c) ==
  \/ GetTransactionCountReturns(c)
  \/ GetTransactionCountThrows(c)
  \/ SendTransactionReturns(c)
  \/ SendTransactionThrows(c)
  \/ ReceiptSuccess(c)
  \/ ReceiptReverted(c)
  \/ ReceiptThrows(c)

\* The same calls, where every chain call a pay() call makes returns.
PayFairSpec == PaySpec /\ \A c \in Calls : WF_vars(ChainCallReturns(c))

ExtNext ==
  \/ DeclareExtension
  \/ SendBrokenExtension
  \/ ExtractExtension

\* The extension declared, sent and read back.
ExtSpec == PayOnlyInit /\ [][ExtNext]_vars

GetNext ==
  \/ MineBlock
  \/ GetCalled
  \/ StartBlockFetched
  \/ StartBlockFailed
  \/ FetchPaid
  \/ FetchUnpaid
  \/ LatestBlockFetched
  \/ LogsFetched
  \/ SearchFailed

\* One X402Client.get call while the chain goes on.
GetSpec == PayOnlyInit /\ [][GetNext]_vars

AxiosNext ==
  \/ AxiosRequest
  \/ ServerAnswers
  \/ RequestFails
  \/ WalletPaid
  \/ WalletFails

\* One get or post request through the axios-based client.
AxiosSpec == PayOnlyInit /\ [][AxiosNext]_vars

(***************************************************************************)
(* Part III: RealWallet.pay against a chain node                           *)
(*                                                                         *)
(* The node keeps the sender's mined count and its pending transactions.   *)
(* A broadcast whose nonce is below the mined count is refused as 'nonce   *)
(* too low'; one whose nonce is taken by a pending transaction is refused  *)
(* as 'already known' (same fee, same transaction) or 'replacement         *)
(* transaction underpriced' (lower fee), and replaces the pending          *)
(* transaction when its fee is higher.  No other error occurs.             *)
(***************************************************************************)

\* Fees per gas the client's estimate may fill in at the time of a broadcast.
Fees == {1, 2}

\* eth_getTransactionCount(address, 'pending')
PendingCount ==
  CHOOSE n \in chainNonce..(chainNonce + Cardinality(pool)) :
    /\ \A p \in pool : p.nonce # n
    /\ \A k \in chainNonce..(n - 1) : \E p \in pool : p.nonce = k

\* 'nonce too low' as the node words it: with the account state, or without
\* a number the wallet's patterns find.
NonceTooLowTexts(txNonce, stateNonce) ==
  { <<W("nonce too low"), W("tx:"), D(txNonce), W("state:"), D(stateNonce)>>,
    <<W("nonce too low"), W("next nonce"), D(stateNonce), W("tx nonce"),
      D(txNonce)>> }

AlreadyKnown == <<W("already known")>>

\* The transaction of call c's current attempt is pending or mined.
OwnTransactions(c) ==
  {p \in pool \cup mined : p.call = c /\ p.nonce = count[c]}

\* The transaction of call c's current attempt was dropped from the pool:
\* another transaction with its nonce took its place.
Dropped(c) == payPc[c] \in {"wait", "returned"} /\ OwnTransactions(c) = {}

\* await getTransactionCount resolves with the node's pending count.
ChainGetTransactionCount(c) ==
  /\ payPc[c] = "rpc"
  /\ GotTransactionCount(c, PendingCount)
  /\ answered' = [answered EXCEPT ![c] = PendingCount]
  /\ UNCHANGED <<facVars, clientVars, chainNonce, pool, mined>>

\* sendTransaction reaches the node and is refused: the await rejects.
ChainRefuses(c) ==
  /\ payPc[c] = "send"
  /\ \E fee \in Fees :
       \/ /\ count[c] < chainNonce
          /\ \E msg \in NonceTooLowTexts(count[c], chainNonce) : Catch(c, msg)
       \/ /\ count[c] >= chainNonce
          /\ \E p \in pool :
               /\ p.nonce = count[c]
               /\ fee <= p.fee
               /\ Catch(c, IF fee = p.fee THEN AlreadyKnown ELSE Underpriced)
  /\ UNCHANGED <<facVars, chainVars, clientVars>>

\* sendTransaction reaches the node and is accepted into the pool.
ChainAccepts(c) ==
  /\ payPc[c] = "send"
  /\ count[c] >= chainNonce
  /\ \E fee \in Fees :
       /\ \A p \in pool : p.nonce # count[c]
       /\ pool' = pool \cup {[nonce |-> count[c], call |-> c, fee |-> fee]}
  /\ Broadcast(c)
  /\ UNCHANGED <<facVars, clientVars, chainNonce, mined, answered>>

\* sendTransaction reaches the node with a higher fee than the pending
\* transaction of the same nonce, and replaces it.
ChainReplaces(c) ==
  /\ payPc[c] = "send"
  /\ count[c] >= chainNonce
  /\ \E fee \in Fees, p \in pool :
       /\ p.nonce = count[c]
       /\ fee > p.fee
       /\ pool' = (pool \ {p})
                     \cup {[nonce |-> count[c], call |-> c, fee |-> fee]}
  /\ Broadcast(c)
  /\ UNCHANGED <<facVars, clientVars, chainNonce, mined, answered>>

\* A block includes the pending transaction with the next nonce.
ChainMines ==
  /\ \E p \in pool :
       /\ p.nonce = chainNonce
       /\ pool' = pool \ {p}
       /\ mined' = mined \cup {p}
  /\ chainNonce' = chainNonce + 1
  /\ UNCHANGED <<payVars, facVars, clientVars, answered>>

\* await waitForTransactionReceipt resolves with status 'success': the
\* call's transaction was mined, or the transaction that replaced it was
\* (the client then resolves with the replacement's receipt).
ChainReceipt(c) ==
  /\ payPc[c] = "wait"
  /\ \E p \in mined : p.nonce = count[c]
  /\ payPc' = [payPc EXCEPT ![c] = "returned"]
  /\ payHash' = [payHash EXCEPT ![c] = sendCount[c]]
  /\ UNCHANGED <<payError, attempt, nextNonce, count, sendCount, rpcCount,
                 lastError, lastErrorAt, prevCount, nonceFailures,
                 sendsAfterFatal>>
  /\ UNCHANGED <<facVars, chainVars, clientVars>>

RaceNext ==
  \/ \E c \in Calls :
       \/ PayStart(c)
       \/ ChainGetTransactionCount(c)
       \/ ChainRefuses(c)
       \/ ChainAccepts(c)
       \/ ChainReplaces(c)
       \/ ChainReceipt(c)
  \/ ChainMines

\* Concurrent pay() calls of one sender against one chain node.
RaceSpec == PayOnlyInit /\ [][RaceNext]_vars

\* The call whose receipt wait may reject.
ImpatientCall == 1

RetryNext ==
  \/ RaceNext
  \/ ReceiptThrows(ImpatientCall)

\* The same, with a receipt wait that may reject as in Part I.
RetrySpec == PayOnlyInit /\ [][RetryNext]_vars

(***************************************************************************)
(* Properties of RealWallet.pay                                            *)
(***************************************************************************)

\* C1: a pay() call invokes sendTransaction at most 5 times, and a call whose
\* 5 attempts all failed with nonce-conflict errors has ended by throwing
\* 'Max retry attempts reached for transaction.'
C1_RetryBound ==
  \A c \in Calls :
    /\ sendCount[c] <= 5
    /\ nonceFailures[c] = 5 =>
         /\ payPc[c] = "thrown"
         /\ payError[c] = MaxRetryError

\* C1 witness: a call that broadcast 5 times, failed 5 times with nonce
\* conflicts and ended with the terminal error.
C1_Witness ==
  \E c \in Calls :
    /\ sendCount[c] = 5
    /\ nonceFailures[c] = 5
    /\ payError[c] = MaxRetryError

\* The integers a nonce-conflict text reports as 'state: N' or 'want N'.
ReportedNonces(msg) ==
  {MatchNumber(msg, "state:"), MatchNumber(msg, "want")} \ {NULL}

\* C9: an attempt that follows a nonce-conflict failure uses the nonce parsed
\* from 'state: N' or 'want N' in the error text when there is one, and the
\* previous candidate plus one otherwise; after a first failure with
\* 'nonce too low ... state: 7' the second attempt uses nonce 7.
C9_NonceCorrection ==
  \A c \in Calls :
    (payPc[c] = "send" /\ attempt[c] >= 2) =>
      /\ IsNonceError(lastError[c])
      /\ ReportedNonces(lastError[c]) # {} =>
           count[c] \in ReportedNonces(lastError[c])
      /\ ReportedNonces(lastError[c]) = {} => count[c] = prevCount[c] + 1
      /\ (attempt[c] = 2 /\ lastError[c] = NonceTooLowState) => count[c] = 7

\* C9 witness: the second attempt is being broadcast with nonce 7 after
\* 'nonce too low ... state: 7'.
C9_Witness ==
  \E c \in Calls :
    /\ payPc[c] = "send"
    /\ attempt[c] = 2
    /\ lastError[c] = NonceTooLowState
    /\ lastErrorAt[c] = "sendTransaction"
    /\ count[c] = 7

\* C9 witness of the blind increment: an attempt after an unparsable nonce
\* conflict is broadcast with the previous candidate plus one.
C9_WitnessBlind ==
  \E c \in Calls :
    /\ payPc[c] = "send"
    /\ lastError[c] = Underpriced
    /\ count[c] = prevCount[c] + 1

\* C10: once a broadcast has failed with an error outside the nonce-conflict
\* family, pay() has thrown that same error and has made no further
\* sendTransaction call.
C10_FatalPropagates ==
  \A c \in Calls :
    (lastErrorAt[c] = "sendTransaction" /\ ~IsNonceError(lastError[c])) =>
      /\ payPc[c] = "thrown"
      /\ payError[c] = lastError[c]
      /\ sendsAfterFatal[c] = 0

\* C10 witness: a broadcast failed with 'insufficient funds' after an
\* earlier nonce conflict, and pay() threw it.
C10_Witness ==
  \E c \in Calls :
    /\ lastErrorAt[c] = "sendTransaction"
    /\ lastError[c] = InsufficientFunds
    /\ payError[c] = InsufficientFunds
    /\ sendCount[c] = 2

\* C11: once a receipt has come back with a status other than success, pay()
\* has thrown 'Transaction failed with status: ...' and has issued no further
\* sendTransaction, whatever nonce conflicts the earlier attempts met.
C11_RevertedReceiptIsFatal ==
  \A c \in Calls :
    lastError[c] = ReceiptFailed =>
      /\ lastErrorAt[c] = "waitForTransactionReceipt"
      /\ payPc[c] = "thrown"
      /\ payError[c] = ReceiptFailed
      /\ sendsAfterFatal[c] = 0
      /\ sendCount[c] = attempt[c]

\* C11 witness: the third attempt, after two nonce conflicts, was broadcast
\* and its receipt reported a failure; pay() threw.
C11_Witness ==
  \E c \in Calls :
    /\ lastError[c] = ReceiptFailed
    /\ nonceFailures[c] = 2
    /\ sendCount[c] = 3
    /\ payPc[c] = "thrown"

\* C12 (as claimed): an attempt's transaction never has the hash of the
\* transaction of the attempt before it in the same pay() call.
C12_DistinctHashPerAttempt ==
  \A c \in Calls :
    (payPc[c] \in {"send", "wait"} /\ attempt[c] >= 2) =>
      TxHash(TransactionRequest(c, attempt[c], count[c]))
        # TxHash(TransactionRequest(c, attempt[c] - 1, prevCount[c]))

\* C12, what does hold: two consecutive attempts with different nonces have
\* different hashes.
C12_DistinctHashPerNonce ==
  \A c \in Calls :
    (payPc[c] \in {"send", "wait"} /\ attempt[c] >= 2
       /\ count[c] # prevCount[c]) =>
      TxHash(TransactionRequest(c, attempt[c], count[c]))
        # TxHash(TransactionRequest(c, attempt[c] - 1, prevCount[c]))

\* C13: a pay() call that has started has called getTransactionCount exactly
\* once, and every attempt after the first is broadcast with the nonce
\* recovered from the failure before it.
C13_SingleNonceQuery ==
  \A c \in Calls :
    /\ payPc[c] # "idle" => rpcCount[c] = 1
    /\ (payPc[c] = "send" /\ attempt[c] >= 2) =>
         /\ count[c] = nextNonce[c]
         /\ count[c] = CorrectedNonce(lastError[c], prevCount[c])

\* C13 witness: a call confirmed on its third attempt after one chain query.
C13_Witness ==
  \E c \in Calls :
    /\ payPc[c] = "returned"
    /\ attempt[c] = 3
    /\ nonceFailures[c] = 2
    /\ rpcCount[c] = 1

\* Both calls were answered the same pending count.
SameNonceRead ==
  \A c, d \in Calls : answered[c] # NULL /\ answered[c] = answered[d]

\* The nonce of the mined transaction call c returned after.
ConfirmedNonces(c) == {p.nonce : p \in {m \in mined : m.call = c}}

\* C14 (as claimed): when both calls read the same pending nonce and no
\* error outside the nonce-conflict family occurs, no call gives up or goes
\* beyond 5 attempts, a call that has returned has a mined transaction of
\* its own, and the transactions of two calls that have returned have
\* different nonces.
C14_NonceRaceTolerated ==
  SameNonceRead =>
    \A c \in Calls :
      /\ attempt[c] <= 5
      /\ payPc[c] # "thrown"
      /\ payPc[c] = "returned" =>
           /\ ConfirmedNonces(c) = {count[c]}
           /\ \A d \in Calls \ {c} :
                payPc[d] = "returned" => count[d] # count[c]

\* C14, what does hold: the same, as long as no pending transaction was
\* replaced by the other call's.
C14_ToleratedUnlessReplaced ==
  (SameNonceRead /\ \A c \in Calls : ~Dropped(c)) =>
    \A c \in Calls :
      /\ attempt[c] <= 2
      /\ payPc[c] # "thrown"
      /\ payPc[c] = "returned" =>
           /\ ConfirmedNonces(c) = {count[c]}
           /\ \A d \in Calls \ {c} :
                payPc[d] = "returned" => count[d] # count[c]

\* The race without replacement: both calls read the same count, one was
\* refused once, and both returned with mined transactions of their own.
C14_RaceTolerated ==
  /\ SameNonceRead
  /\ \A c \in Calls : payPc[c] = "returned" /\ ConfirmedNonces(c) = {count[c]}
  /\ \E c \in Calls : attempt[c] = 2

(***************************************************************************)
(* Properties of the facilitator                                           *)
(***************************************************************************)

\* Payload extensions that carry a well-formed 'cross-chain' entry.
WellFormedExtensions == {ExtCross, ExtSameNetwork, ExtLowerCaseAsset}

BridgeStages ==
  {"bridge.waitForSourceConfirmation", "bridge.initiateBridge",
   "bridge.waitForBridgeCompletion"}

C3_LiquidityGateOnVerify ==
  \A r \in Reqs :
    LET q == requests[r] IN
    ( /\ q.entry = "POST /verify"
      /\ q.payload.extension \in WellFormedExtensions
      /\ CROSS_CHAIN_ENABLED
      /\ ~bridgeLiquidity ) =>
        /\ q.schemeVerifyCalls = 0
        /\ q.schemeSettleCalls = 0
        /\ q.pc = "done" =>
             q.response =
               Json(VerifyResponse(FALSE,
                                   Reason("insufficient_bridge_liquidity"), ""))

\* C4 (as claimed): a POST /settle handler never sits inside bridge(), at its
\* confirmation wait, initiate call or completion wait, with its response
\* still undelivered.
C4_SettleNotBlockedOnBridge ==
  \A r \in Reqs :
    requests[r].pc \in BridgeStages => requests[r].response.kind # "none"

\* C4, what the handler does instead: a response that follows a bridge()
\* call is delivered only once bridge() has completed or failed.
C4_ResponseWaitsForBridge ==
  \A r \in Reqs :
    (requests[r].bridgeCalls > 0 /\ requests[r].response.kind # "none") =>
      \/ requests[r].bridgeFailedAt # ""
      \/ requests[r].bridgeTxHash # ""

C6_MissingExtensionGate ==
  \A r \in Reqs :
    LET q == requests[r] IN
    ( /\ q.entry = "router.verify"
      /\ q.payload.extension \notin WellFormedExtensions ) =>
        /\ q.pc = "done"
        /\ q.response =
             VerifyResponse(FALSE, Reason("missing_cross_chain_extension"), "")
        /\ q.schemeLookups = 0
        /\ q.schemeVerifyCalls = 0

\* C6 witness: verify answered a payload whose destinationPayTo is not an
\* address.
C6_Witness ==
  \E r \in Reqs :
    /\ requests[r].entry = "router.verify"
    /\ requests[r].payload.extension = ExtBadAddress
    /\ requests[r].response.reason = Reason("missing_cross_chain_extension")

\* C7: with CROSS_CHAIN_ENABLED false, bridge() is never invoked, and a
\* settle of a payload carrying the cross-chain extension hands the base
\* scheme requirements whose payTo is the caller's requirements.payTo.
C7_BridgingDisabled ==
  ~CROSS_CHAIN_ENABLED =>
    \A r \in Reqs :
      LET q == requests[r] IN
      /\ q.bridgeCalls = 0
      /\ q.pc \notin BridgeStages
      /\ ( /\ q.entry \in {"router.settle", "POST /settle"}
           /\ q.payload.extension \in WellFormedExtensions
           /\ q.schemeSettleCalls > 0 ) =>
             q.schemeRequirements.payTo = q.requirements.payTo

\* C7 witness: bridging is disabled and a router settle of a cross-chain
\* payload succeeded, paid to the merchant.
C7_Witness ==
  /\ ~CROSS_CHAIN_ENABLED
  /\ \E r \in Reqs :
       /\ requests[r].entry = "router.settle"
       /\ requests[r].payload.extension = ExtCross
       /\ requests[r].requirements.payTo = MerchantAddress
       /\ requests[r].schemeRequirements.payTo = MerchantAddress
       /\ requests[r].response.ok
  /\ \E r \in Reqs :
       /\ requests[r].entry = "POST /settle"
       /\ requests[r].payload.extension = ExtCross
       /\ requests[r].schemeSettleCalls = 1
       /\ requests[r].pc = "done"

\* C8: bridge() is invoked only with bridging enabled, for a payload carrying
\* the cross-chain extension, after a settle that returned success:true, and
\* with (result.network, result.transaction, extension.destinationNetwork,
\* extension.destinationAsset, requirements.amount,
\* extension.destinationPayTo).
C8_BridgeInvocation ==
  \A r \in Reqs :
    LET q == requests[r] IN
    q.bridgeCalls > 0 =>
      /\ q.bridgeCalls = 1
      /\ CROSS_CHAIN_ENABLED
      /\ q.payload.extension \in WellFormedExtensions
      /\ q.result.kind = "SettleResponse"
      /\ q.result.ok
      /\ q.schemeSettleCalls = 1
      /\ q.bridgeArgs =
           <<q.result.network, q.result.transaction,
             q.payload.extension.destinationNetwork,
             q.payload.extension.destinationAsset,
             q.requirements.amount,
             q.payload.extension.destinationPayTo>>

\* C8 witness: the scenario's call bridge(source network, source
\* transaction, destination network, destination asset, "10000", merchant).
C8_Witness ==
  \E r \in Reqs :
    /\ requests[r].bridgeCalls = 1
    /\ requests[r].bridgeArgs =
         <<BaseSepolia, TxHashOf(r), EthSepolia, UsdcEth, "10000",
           MerchantAddress>>
    /\ requests[r].requirements.payTo = FacilitatorAddress

\* C15: getExchangeRate answers exactly 1 whenever the destination asset is
\* the source asset's address in any letter case, whatever the two chains
\* are and whatever the price source would quote.
C15_SameAssetRate ==
  \A r \in Reqs :
    LET q == requests[r] IN
    ( /\ q.rate # NULL
      /\ q.requirements.asset = UsdcBase
      /\ q.payload.extension.destinationAsset \in {UsdcBase, UsdcBaseLower} )
      => q.rate = 1

\* C15 witness: the rate was asked for USDC against its lower-case spelling
\* while the price source quoted 0, and the answer was 1.
C15_Witness ==
  \E r \in Reqs :
    /\ requests[r].payload.extension = ExtLowerCaseAsset
    /\ requests[r].rate = 1
    /\ getExchangeRate(UsdcBase, UsdcBaseLower, 0) = 1

RouterEntries == {"router.verify", "router.settle"}

\* C17 (as claimed): every SettleResult CrossChainRouter.settle returns has
\* network equal to requirements.network and different from the extension's
\* destinationNetwork.
C17_ResultNetworkIsSource ==
  \A r \in Reqs :
    LET q == requests[r] IN
    ( /\ q.entry = "router.settle"
      /\ q.pc = "done"
      /\ q.response.kind = "SettleResponse" ) =>
        /\ q.response.network = q.requirements.network
        /\ q.response.network # q.payload.extension.destinationNetwork

\* C17 (amended): every SettleResult CrossChainRouter.settle returns has
\* network equal to requirements.network; it equals the extension's
\* destinationNetwork only when the extension names the source chain itself.
C17_ResultNetworkIsRequirementsNetwork ==
  \A r \in Reqs :
    LET q == requests[r] IN
    ( /\ q.entry = "router.settle"
      /\ q.pc = "done"
      /\ q.response.kind = "SettleResponse" ) =>
        /\ q.response.network = q.requirements.network
        /\ q.response.network = q.payload.extension.destinationNetwork
             => q.payload.extension = ExtSameNetwork

\* C17 witness: settle calls returned a successful and a failed result for
\* payments from Base Sepolia to Ethereum Sepolia, both naming Base Sepolia.
C17_Witness ==
  \E r, f \in Reqs :
    /\ requests[r].entry = "router.settle"
    /\ requests[r].payload.extension = ExtCross
    /\ requests[r].response.kind = "SettleResponse"
    /\ requests[r].response.ok
    /\ requests[r].response.network = BaseSepolia
    /\ requests[f].entry = "router.settle"
    /\ requests[f].payload.extension = ExtCross
    /\ requests[f].schemeSettleCalls = 1
    /\ requests[f].response.kind = "SettleResponse"
    /\ ~requests[f].response.ok
    /\ requests[f].response.network = BaseSepolia

\* C18: the requirements CrossChainRouter hands to the base scheme's verify
\* and settle carry the caller's scheme, network, asset, amount,
\* maxTimeoutSeconds and extra unchanged.
C18_SourceRequirementsFrame ==
  \A r \in Reqs :
    LET q == requests[r] IN
    ( /\ q.entry \in RouterEntries
      /\ q.schemeVerifyCalls + q.schemeSettleCalls > 0 ) =>
        /\ q.schemeRequirements.scheme = q.requirements.scheme
        /\ q.schemeRequirements.network = q.requirements.network
        /\ q.schemeRequirements.asset = q.requirements.asset
        /\ q.schemeRequirements.amount = q.requirements.amount
        /\ q.schemeRequirements.maxTimeoutSeconds
             = q.requirements.maxTimeoutSeconds
        /\ q.schemeRequirements.extra = q.requirements.extra

\* C18 witness: the base scheme's settle is running on the requirements the
\* router built from a caller's exact / Base Sepolia / USDC / 10000.
C18_Witness ==
  \E r \in Reqs :
    /\ requests[r].entry = "router.settle"
    /\ requests[r].pc = "scheme.settle"
    /\ requests[r].schemeRequirements.asset = UsdcBase
    /\ requests[r].schemeRequirements.amount = "10000"
    /\ requests[r].schemeRequirements.extra = "usdc-eip712"

\* C19 (as claimed): with bridging enabled, the requirements CrossChainRouter
\* hands to the base scheme pay the bridge lock address, the address the
\* BridgeService is configured with.
C19_PayToIsBridgeLockAddress ==
  \A r \in Reqs :
    LET q == requests[r] IN
    ( /\ CROSS_CHAIN_ENABLED
      /\ q.entry \in RouterEntries
      /\ q.schemeVerifyCalls + q.schemeSettleCalls > 0 ) =>
        q.schemeRequirements.payTo = FacilitatorAddress

\* C19, what the router does instead: it hands on the caller's payTo.
C19_PayToIsCallersPayTo ==
  \A r \in Reqs :
    LET q == requests[r] IN
    ( /\ q.entry \in RouterEntries
      /\ q.schemeVerifyCalls + q.schemeSettleCalls > 0 ) =>
        q.schemeRequirements.payTo = q.requirements.payTo

\* The reason names the code cross_chain_not_supported_for_scheme.
IsNotSupportedForScheme(reason) ==
  /\ Len(reason) > 0
  /\ reason[1] = "cross_chain_not_supported_for_scheme: "

\* C20 (as claimed): for requirements whose scheme ("bazaar") has no base
\* scheme registered, CrossChainRouter.verify and CrossChainRouter.settle
\* fail with the reason cross_chain_not_supported_for_scheme and call no
\* base scheme.
C20_UnregisteredScheme ==
  \A r \in Reqs :
    LET q == requests[r] IN
    ( /\ q.entry \in RouterEntries
      /\ q.requirements.scheme = "bazaar" ) =>
        /\ q.pc = "done"
        /\ ~q.response.ok
        /\ IsNotSupportedForScheme(q.response.reason)
        /\ q.schemeVerifyCalls = 0
        /\ q.schemeSettleCalls = 0

\* C20 (amended): such a call never calls a base scheme; when the payload
\* carries a well-formed cross-chain extension it fails with
\* 'cross_chain_not_supported_for_scheme: bazaar. No facilitator registered
\* for this scheme.', and otherwise with 'missing_cross_chain_extension'.
C20_UnregisteredSchemeAfterExtension ==
  \A r \in Reqs :
    LET q == requests[r] IN
    ( /\ q.entry \in RouterEntries
      /\ q.requirements.scheme = "bazaar" ) =>
        /\ q.pc = "done"
        /\ ~q.response.ok
        /\ q.response.kind =
             (IF q.entry = "router.verify" THEN "VerifyResponse"
              ELSE "SettleResponse")
        /\ q.response.reason =
             (IF q.payload.extension \in WellFormedExtensions
              THEN <<"cross_chain_not_supported_for_scheme: ", "bazaar",
                     ". No facilitator registered for this scheme.">>
              ELSE <<"missing_cross_chain_extension">>)
        /\ q.schemeVerifyCalls = 0
        /\ q.schemeSettleCalls = 0

\* C20 witness: verify and settle were called with a cross-chain payload
\* and "bazaar" requirements, and both failed with that reason.
C20_Witness ==
  \E r, v \in Reqs :
    /\ requests[v].entry = "router.verify"
    /\ requests[r].entry = "router.settle"
    /\ \A x \in {r, v} :
         /\ requests[x].requirements.scheme = "bazaar"
         /\ requests[x].payload.extension = ExtCross
         /\ IsNotSupportedForScheme(requests[x].response.reason)

\* C21: CrossChainRouter.verify never throws; when the base scheme's verify
\* throws, it returns isValid:false with the reason
\* 'source_chain_verification_failed: <message>', and a settle of the same
\* input returns success:false with that reason without calling the base
\* scheme's settle.
C21_VerifyErrorIsWrapped ==
  \A r \in Reqs :
    LET q == requests[r] IN
    /\ (q.entry = "router.verify" /\ q.pc = "done") =>
         q.response.kind = "VerifyResponse"
    /\ ( /\ q.entry \in RouterEntries
         /\ q.pc = "done"
         /\ q.payload.signed = "throws"
         /\ q.schemeVerifyCalls = 1 ) =>
           /\ q.response.kind =
                (IF q.entry = "router.verify" THEN "VerifyResponse"
                 ELSE "SettleResponse")
           /\ ~q.response.ok
           /\ q.response.reason =
                <<"source_chain_verification_failed: ",
                  "verify: rpc request failed">>
           /\ q.response.transaction = ""
           /\ q.schemeSettleCalls = 0

\* C21 witness: the base scheme's verify threw in a verify call and in a
\* settle call, and both returned the wrapped reason.
C21_Witness ==
  \E r, v \in Reqs :
    /\ requests[v].entry = "router.verify"
    /\ requests[r].entry = "router.settle"
    /\ \A x \in {r, v} :
         /\ requests[x].pc = "done"
         /\ requests[x].payload.signed = "throws"
         /\ requests[x].schemeVerifyCalls = 1
         /\ requests[x].response.reason =
              SourceVerificationFailed("verify: rpc request failed")

\* The entries the HTTP server offers.
HttpEntries == {"POST /verify", "POST /settle"}

\* C22: a verify or settle request is handled by CrossChainRouter exactly
\* when its payload carries a valid cross-chain extension, whatever
\* requirements.scheme is; a request without it goes to the registered scheme.
C22_ExtensionSelectsRouter ==
  \A r \in Reqs :
    LET q == requests[r] IN
    (q.entry \in HttpEntries /\ q.handler # "") =>
      (q.handler = "CrossChainRouter"
         <=> extractCrossChainInfo(q.payload) # NoInfo)

\* C22, the part that holds: the router is never selected by the scheme
\* name, and a request without the extension goes to the registered scheme.
C22_NoExtensionGoesToScheme ==
  \A r \in Reqs :
    LET q == requests[r] IN
    (q.entry \in HttpEntries /\ q.handler # "") =>
      /\ q.requirements.scheme # "cross-chain"
      /\ extractCrossChainInfo(q.payload) = NoInfo =>
           /\ q.handler = "x402Facilitator"
           /\ q.schemeLookups = 0

\* The orders in which a finished facilitator.verify or facilitator.settle
\* call may have run its steps.
VerifyOrders ==
  { <<"beforeVerify">>,
    <<"beforeVerify", "scheme.verify", "afterVerify">>,
    <<"beforeVerify", "scheme.verify", "verifyFailure">>,
    <<"beforeVerify", "verifyFailure">> }
SettleOrders ==
  { <<"beforeSettle", "scheme.settle", "afterSettle">>,
    <<"beforeSettle", "scheme.settle", "settleFailure">>,
    <<"beforeSettle", "settleFailure">> }

IsPrefix(s, t) == Len(s) <= Len(t) /\ s = SubSeq(t, 1, Len(s))

C23_WitnessFailure ==
  \E r \in Reqs :
    /\ requests[r].pc = "done"
    /\ requests[r].steps = <<"beforeVerify", "scheme.verify", "verifyFailure">>

\* C24: with bridging enabled, no payment whose extension names
\* requirements.network itself as destinationNetwork is verified as valid or
\* settled.
C24_SourceDiffersFromDestination ==
  \A r \in Reqs :
    LET q == requests[r]
        crossChainInfo == extractCrossChainInfo(q.payload)
    IN
    ( /\ CROSS_CHAIN_ENABLED
      /\ crossChainInfo # NoInfo
      /\ crossChainInfo.destinationNetwork = q.requirements.network ) =>
        /\ ~q.response.ok
        /\ ~q.result.ok
        /\ q.schemeSettleCalls = 0

VerifyEntries == {"POST /verify", "router.verify"}

\* Two verify calls were given the same payload and requirements, and the
\* price source answered both alike.
SameVerifyInput(q, p) ==
  /\ q.entry \in VerifyEntries
  /\ p.entry = q.entry
  /\ p.payload = q.payload
  /\ p.requirements = q.requirements
  /\ p.rate = q.rate

SettleEntries == {"POST /settle", "router.settle"}

\* The settle call answered success:true with a transaction.
SettledWithTransaction(q) ==
  /\ q.entry \in SettleEntries
  /\ q.pc = "done"
  /\ q.response.kind = "SettleResponse"
  /\ q.response.ok
  /\ q.response.transaction # ""

C27_NonceIsCallLocal ==
  /\ [](\A c \in Calls :
         /\ payPc[c] = "idle" => (nextNonce[c] = NULL /\ count[c] = NULL)
         /\ attempt[c] = 1 => (nextNonce[c] = NULL /\ rpcCount[c] = 1))
  /\ [][\A c \in Calls :
          (payPc'[c] = payPc[c] /\ attempt'[c] = attempt[c]) =>
            (nextNonce'[c] = nextNonce[c] /\ count'[c] = count[c])]_vars

\* C27 witness: one call broadcasts with a corrected nonce while another,
\* still on its first attempt, broadcasts with the nonce it fetched.
C27_Witness ==
  \E c, d \in Calls :
    /\ c # d
    /\ payPc[c] = "send"
    /\ attempt[c] = 2
    /\ nextNonce[c] # NULL
    /\ count[c] = nextNonce[c]
    /\ payPc[d] = "send"
    /\ attempt[d] = 1
    /\ nextNonce[d] = NULL
    /\ count[d] # count[c]

BridgeOrder ==
  <<"bridge.waitForSourceConfirmation", "bridge.initiateBridge",
    "bridge.waitForBridgeCompletion">>

C29_FailedSettleIsReturnedUnchanged ==
  \A r \in Reqs :
    LET q == requests[r] IN
    ( /\ q.pc = "done"
      /\ q.schemeSettleCalls = 1
      /\ q.result.kind = "SettleResponse"
      /\ ~q.result.ok ) =>
        /\ q.response.kind = "SettleResponse"
        /\ ~q.response.ok
        /\ q.response.transaction = q.result.transaction
        /\ q.response.reason = q.result.reason
        /\ q.response.payer = q.result.payer
        /\ q.response.network = q.requirements.network
        /\ q.bridgeCalls = 0
        /\ q.stages = <<>>

\* C29 witness: with bridging enabled, CrossChainRouter.settle was called
\* with a payload carrying the extension, the chain write failed, and the
\* scheme's result came back.
C29_Witness ==
  \E r \in Reqs :
    /\ CROSS_CHAIN_ENABLED
    /\ requests[r].entry = "router.settle"
    /\ requests[r].pc = "done"
    /\ requests[r].payload.extension = ExtCross
    /\ requests[r].result.reason = <<"transaction_failed">>
    /\ requests[r].response.reason = <<"transaction_failed">>
    /\ requests[r].response.payer = PayerAddress

\* C30: when facilitator.settle throws an error whose message contains
\* 'Settlement aborted:', POST /settle answers 200 with success:false,
\* transaction '', errorReason the message without 'Settlement aborted: ' and
\* network the payload's network or 'unknown'; every other thrown error
\* yields HTTP 500 with the error's message.
C30_SettlementAbortedIsAnswered ==
  \A r \in Reqs :
    LET q == requests[r]
        message == q.result.reason
    IN
    ( /\ q.entry = "POST /settle"
      /\ q.pc = "done"
      /\ q.result.kind = "thrown" ) =>
        IF \E i \in 1..Len(message) : message[i] = "Settlement aborted:"
        THEN /\ q.response.kind = "SettleResponse"
             /\ q.response.http = 200
             /\ ~q.response.ok
             /\ q.response.transaction = ""
             /\ q.response.network =
                  (IF q.payload.network = Undefined THEN "unknown"
                   ELSE q.payload.network)
             /\ q.response.reason =
                  (IF message[1] = "Settlement aborted:"
                   THEN <<"authorization_expired">>
                   ELSE <<"settle failed: ", "authorization_expired">>)
        ELSE /\ q.response.kind = "error"
             /\ q.response.http = 500
             /\ q.response.reason = message

\* C30 witness: one settlement was aborted for a payload without a network
\* field and answered with network 'unknown'; another threw an ordinary error
\* and was answered with HTTP 500.
C30_Witness ==
  \E r, s \in Reqs :
    /\ requests[r].entry = "POST /settle"
    /\ requests[r].pc = "done"
    /\ requests[r].result.reason = SettlementAborted
    /\ requests[r].response.reason = <<"authorization_expired">>
    /\ requests[r].response.network = "unknown"
    /\ requests[s].entry = "POST /settle"
    /\ requests[s].pc = "done"
    /\ requests[s].result.reason = <<"settle: rpc request failed">>
    /\ requests[s].response.http = 500

\* C30 witness: the words of the abort stood behind those of a wrapping
\* error, and only they were taken out.
C30_WitnessWrapped ==
  \E r \in Reqs :
    /\ requests[r].entry = "POST /settle"
    /\ requests[r].pc = "done"
    /\ requests[r].result.reason = SettlementAbortedWrapped
    /\ requests[r].response.reason =
         <<"settle failed: ", "authorization_expired">>
    /\ requests[r].response.network = BaseSepolia

\* Strings of the form eip155:<digits>, and 0x followed by 40 hex digits.
Eip155Values == {Str(<<"eip155:", "137">>), Str(<<"eip155:", "84532">>)}
HexAddressValues ==
  { Str(<<"0x", "036CbD53842c5426634e", "7929541ec2318f3dcf7e">>),
    Str(<<"0x", "7929541ec2318f3dcf7e", "7929541ec2318f3dcf7e">>) }

\* C31: for params whose destinationNetwork is eip155:<digits> and whose
\* destinationAsset and destinationPayTo are 0x and 40 hex digits,
\* extractCrossChainInfo of a payload carrying
\* declareCrossChainExtension(params) returns exactly params; when the
\* extension, its info or one of the fields is missing, is not a string or
\* fails its pattern, it returns null.
C31_ExtensionRoundTrip ==
  extPc = "extracted" =>
    IF /\ extPayload.extensions = "object"
       /\ extPayload.entry = "object"
       /\ extPayload.infoType = "object"
       /\ extParams.destinationNetwork \in Eip155Values
       /\ extParams.destinationAsset \in HexAddressValues
       /\ extParams.destinationPayTo \in HexAddressValues
    THEN ~extResult.null /\ extResult.info = extParams
    ELSE extResult.null

\* C31 witness: params with distinct asset and payTo came back unchanged.
C31_Witness ==
  /\ extPc = "extracted"
  /\ ~extResult.null
  /\ extResult.info = extParams
  /\ extParams.destinationAsset # extParams.destinationPayTo
  /\ extParams.destinationNetwork = Str(<<"eip155:", "84532">>)

\* C31 witness: an address of 42 hex digits was refused.
C31_WitnessRefused ==
  /\ extPc = "extracted"
  /\ extResult.null
  /\ extPayload.infoType = "object"
  /\ extParams.destinationNetwork \in Eip155Values
  /\ extParams.destinationAsset \in HexAddressValues
  /\ extParams.destinationPayTo =
       Str(<<"0x", "036CbD53842c5426634e", "7929541ec2318f3dcf7e", "ab">>)

\* C32: pay() returns a transaction hash only if a transaction broadcast
\* within that same call obtained a receipt with status success; in every
\* other outcome it ends by raising an error.
C32_HashOnlyAfterOwnReceipt ==
  \A c \in Calls :
    /\ payPc[c] = "returned" =>
         /\ payError[c] = NoError
         /\ payHash[c] = sendCount[c]
         /\ \E m \in mined : m.call = c /\ m.nonce = count[c]
    /\ payPc[c] = "thrown" => (payError[c] # NoError /\ payHash[c] = 0)

\* C32, what does hold: pay() returns only from its receipt wait, with the
\* hash of the broadcast it waited for, and otherwise ends with an error.
C32_ReturnsOnlyFromReceiptWait ==
  /\ [](\A c \in Calls :
         /\ payPc[c] = "returned" =>
              (payError[c] = NoError /\ payHash[c] = sendCount[c]
                 /\ sendCount[c] >= 1)
         /\ payPc[c] = "thrown" => (payError[c] # NoError /\ payHash[c] = 0))
  /\ [][\A c \in Calls :
          (payPc'[c] = "returned" /\ payPc[c] # "returned") =>
            payPc[c] = "wait"]_vars

\* C33: the transaction hash X402Client.get attaches to a successful
\* response is taken only from a Transfer log whose block number is at or
\* after the block at which the request started and whose value equals the
\* selected option's amount.
C33_OnlyFreshExactLog ==
  reported # NoLog =>
    /\ reported.blockNumber >= startHead
    /\ reported.value = currentOptions.amount

\* C33, what does hold: when the start block was captured, the reported log
\* is at or after it and has the selected option's amount.
C33_FreshWhenStartBlockKnown ==
  (reported # NoLog /\ startBlock # NULL) =>
    /\ startBlock >= startHead
    /\ reported.blockNumber >= startBlock
    /\ reported.value = currentOptions.amount

\* C34: at most one transaction broadcast by a single pay() call is ever
\* accepted by the chain; once a broadcast of the call was accepted, the
\* call never gets a second transaction with another nonce confirmed.
C34_AtMostOneConfirmed ==
  \A c \in Calls :
    \A p, q \in mined : (p.call = c /\ q.call = c) => p.nonce = q.nonce

\* C34, what does hold: where the receipt wait never rejects (RaceSpec), a
\* call has at most one transaction pending or mined.
C34_OneAcceptedWhenWaitResolves ==
  \A c \in Calls :
    \A p, q \in pool \cup mined :
      (p.call = c /\ q.call = c) => p.nonce = q.nonce

\* C35: bridge() is only ever triggered for a settlement whose funds were
\* sent to the bridge lock address, the facilitatorAddress the BridgeService
\* is configured with; never for a settlement whose requirements.payTo is
\* another address.
C35_BridgeOnlyForLockedFunds ==
  \A r \in Reqs :
    requests[r].bridgeCalls > 0 =>
      requests[r].requirements.payTo = "0x3333333333333333333333333333333333333333"

\* C36: with bridging enabled, every settle that succeeded for a payload
\* carrying a valid cross-chain extension is followed by a bridge()
\* invocation for that settlement's transaction: no settle call has
\* answered success without one.
C36_SettledCrossChainIsBridged ==
  \A r \in Reqs :
    LET q == requests[r] IN
    ( /\ CROSS_CHAIN_ENABLED
      /\ SettledWithTransaction(q)
      /\ extractCrossChainInfo(q.payload) # NoInfo ) =>
        /\ q.bridgeCalls > 0
        /\ q.bridgeArgs[2] = q.response.transaction

\* C36, what does hold: a POST /settle that succeeded for a valid extension
\* naming another network than the settlement's has invoked bridge() once,
\* for the settlement's transaction, before it answered.
C36_EndpointBridgesOtherNetwork ==
  \A r \in Reqs :
    LET q == requests[r]
        crossChainInfo == extractCrossChainInfo(q.payload)
    IN
    ( /\ CROSS_CHAIN_ENABLED
      /\ SettledWithTransaction(q)
      /\ q.entry = "POST /settle"
      /\ crossChainInfo # NoInfo
      /\ crossChainInfo.destinationNetwork # q.response.network ) =>
        /\ q.bridgeCalls = 1
        /\ q.bridgeArgs[2] = q.response.transaction

\* C36: the router's settle has answered success for a cross-chain payment
\* and bridge() was not invoked.
C36_RouterSettledUnbridged ==
  \E r \in Reqs :
    LET q == requests[r]
        crossChainInfo == extractCrossChainInfo(q.payload)
    IN
    /\ CROSS_CHAIN_ENABLED
    /\ SettledWithTransaction(q)
    /\ q.entry = "router.settle"
    /\ crossChainInfo # NoInfo
    /\ crossChainInfo.destinationNetwork # q.response.network
    /\ q.bridgeCalls = 0

C38_PaysAtMostOnce == axPays <= 1

\* C38, what does hold: wallet.pay is called once for every 402 answer that
\* can be parsed, so every request after the first follows a payment.
C38_OnePaymentPerChallenge ==
  /\ axPc = "sent" => axSends = axPays + 1
  /\ axPc = "pay" => axSends = axPays
  /\ axPays > 0 => axPayArgs # NoPaymentRequirement

\* C39: every pay() call terminates, with a transaction hash or with an
\* error, provided each chain call it makes returns; no sequence of chain
\* responses keeps the retry loop running forever.
C39_PayTerminates ==
  \A c \in Calls :
    (payPc[c] # "idle") ~> (payPc[c] \in {"returned", "thrown"})

\* C39 witness: a call has ended after its retry loop ran out, every one of
\* its 5 attempts having been answered with a nonce conflict.
C39_Witness ==
  \E c \in Calls :
    /\ payPc[c] = "thrown"
    /\ attempt[c] = 5
    /\ sendCount[c] = 5
    /\ nonceFailures[c] = 5
    /\ payError[c] = <<W("Max retry attempts reached for transaction.")>>

====
